---- MODULE Spec2Model ----
(***************************************************************************)
(* Verification model of the realtime tutoring client and its canvas app.  *)
(*                                                                         *)
(*   Canvas app   (src/frontend/src/App.tsx): the remote-update window,    *)
(*                the onChange debounce and describeCanvasChanges.         *)
(*   Session hook (src/client/src/hooks/useRealtimeSession.ts): the data   *)
(*                channel message handler, handleFunctionCall,             *)
(*                sendClientEvent, sendTextMessage and stopSession.        *)
(*                                                                         *)
(*   Page         (src/client/src/app/page.tsx): the external session      *)
(*                control and the canvas updates the page records.         *)
(*   MCP client   (excalidrawClient of the gateway): clientPromise,        *)
(*                activeTransport, createClient and shutdown.              *)
(*                                                                         *)
(* The programs run in different contexts and share no state, so each has  *)
(* its own next-state relations and specifications over the same variable  *)
(* tuple.                                                                  *)
(***************************************************************************)
EXTENDS Integers, Sequences, FiniteSets, TLC

(***************************************************************************)
(* Bounds of the model.                                                    *)
(***************************************************************************)
\* number of inputs the canvas receives in a run: user inputs (edits and
\* app-state changes) and server messages together
MaxCanvasOps == 4
\* number of inputs the session receives in a run: server events and text
\* messages of the user together
MaxSessionOps == 3
\* number of distinct call ids the server uses
MaxCallIds == 2
\* number of startSession invocations in a run
MaxStarts == 2
\* number of canvas updates the page receives in a run
MaxCanvasUpdates == 1
\* element ids and versions of the lists given to describeCanvasChanges
MaxDescribeIds == 3
MaxVersions == 2
\* number of WebSocket objects the canvas app creates in a run
MaxSockets == 3
\* number of createClient calls of the gateway in a run
MaxTransports == 3

(***************************************************************************)
(* Program constants.  Time is counted in ticks of 500 ms.                 *)
(***************************************************************************)
\* setTimeout(..., 500) of the remote-update window
WindowTicks == 1
\* setTimeout(..., 2000) of the onChange debounce
DebounceTicks == 4
\* a timeout ref that holds no pending timer
NoTimer == -1

VARIABLES
    \* ---- canvas app (App.tsx) ----
    scene,                      \* excalidrawAPI.getSceneElements(), non-deleted
    nextId,                     \* next fresh element id
    pendingNotify,              \* Excalidraw owes an onChange for updateScene
    isApplyingRemoteUpdateRef,  \* the remote-update window flag
    remoteUpdateTimeoutRef,     \* ticks left of the window timer, or NoTimer
    lastElementsRef,            \* the diff baseline
    changeTimeoutRef,           \* ticks left of the debounce timer, or NoTimer
    debounceElements,           \* `elements` captured by the debounce closure
    windowTimeouts,             \* window timers set and neither cleared nor run
    changeTimeouts,             \* debounce timers set and neither cleared nor run
    emitted,                    \* diffs sent to the parent window / WebSocket
    \* ---- canvas history (for stating the properties) ----
    canvasOps,                  \* inputs consumed so far
    userTouched,                \* ids the user ever added, modified or removed
    netAdded, netRemoved, netModified,      \* the user's net changes since the baseline was set
    windowSinceSchedule,        \* the window was open since the debounce was (re)started
    lastNotified,               \* elements carried by the most recent onChange
    clearCanvasPending,         \* a clearCanvas call is suspended at its requests
    clearNotify,                \* the onChange of clearCanvas: "none", "pending", or "debounced"
                                \* when it (re)started the debounce that is pending
    lastOp,                     \* the canvas operation that produced this state
    mermaidPending,             \* a mermaid_convert message is suspended at its conversion
    \* ---- canvas app: the WebSocket to the server ----
    sockets,                    \* the WebSocket objects created, in order: readyState and
                                \* the excalidrawAPI its handlers closed over
    websocketRef,               \* websocketRef.current: a socket, or NoSocket
    isConnected,                \* the isConnected state
    excalidrawAPI,              \* the excalidrawAPI state is set
    reconnectTimers             \* pending setTimeout(connectWebSocket, 3000), each with
                                \* the excalidrawAPI its connectWebSocket closed over

canvasVars == <<scene, nextId, pendingNotify, isApplyingRemoteUpdateRef,
                remoteUpdateTimeoutRef, lastElementsRef, changeTimeoutRef,
                debounceElements, windowTimeouts, changeTimeouts, emitted,
                canvasOps, userTouched,
                netAdded, netRemoved, netModified, windowSinceSchedule,
                lastNotified, clearCanvasPending, clearNotify, lastOp,
                mermaidPending,
                sockets, websocketRef, isConnected, excalidrawAPI, reconnectTimers>>

\* the connection of the canvas app to the server
socketVars == <<sockets, websocketRef, isConnected, excalidrawAPI, reconnectTimers>>

\* the drawing, its window, its debounce and their history
drawVars == <<scene, nextId, pendingNotify, isApplyingRemoteUpdateRef,
              remoteUpdateTimeoutRef, lastElementsRef, changeTimeoutRef,
              debounceElements, windowTimeouts, changeTimeouts, emitted,
              canvasOps, userTouched,
              netAdded, netRemoved, netModified, windowSinceSchedule,
              lastNotified, clearCanvasPending, clearNotify, lastOp,
              mermaidPending>>

VARIABLES
    \* ---- session hook (useRealtimeSession.ts) ----
    dataChannelRef,             \* dataChannelRef.current: a channel id, or NoChannel
    channelState,               \* readyState of the data channel of each start
    localStream,                \* localStream.current: a stream id, or NullRef
    trackState,                 \* the microphone track of each start
    peerConnection,             \* peerConnection.current: a connection id, or NullRef
    pcState,                    \* the RTCPeerConnection of each start
    audioElement,               \* audioElement.current: an element id, or NullRef
    audioState,                 \* the audio element of each start
    isSessionActive, toolsRegistered, microphoneActive, isListening, audioBlocked,
    processedCalls,             \* the Set of the message listener effect
    calls,                      \* the handleFunctionCall invocations, in order
    dispatchKinds,              \* the type of the event that caused each invocation
    sent,                       \* what dc.send() has transmitted, in order
    sentChannels,               \* the channel each of them was sent on
    events,                     \* store.events (newest first)
    executingTool,              \* store.executingTool
    indicatorTimers,            \* pending setTimeout(() => setExecutingTool(null), 2000)
    sessionOps,                 \* inbound events and text messages consumed so far
    canvasUpdates,              \* the canvasUpdates prop: updates the page has received
                                \* (history: duringSession, the session was active)
    starts,                     \* the startSession invocations: where each one is
    startTimers,                \* channels whose 500 ms start-trigger timer is pending
    alerts,                     \* the messages shown by alert(), in order
    externalSessionActive       \* the isSessionActive state of the page, passed to the
                                \* hook as externalSessionActive

\* the refs and the objects they can point to
resourceVars == <<dataChannelRef, channelState, localStream, trackState,
                  peerConnection, pcState, audioElement, audioState>>

\* the status flags of the store
flagVars == <<isSessionActive, toolsRegistered, microphoneActive, isListening,
              audioBlocked>>

\* the tool-call bridge and the logs
bridgeVars == <<processedCalls, calls, dispatchKinds, sent, sentChannels, events,
                executingTool, indicatorTimers, sessionOps, canvasUpdates>>

\* the start sequence
startVars == <<starts, startTimers, alerts>>

sessionVars == <<resourceVars, flagVars, bridgeVars, startVars, externalSessionActive>>

(***************************************************************************)
(* State of the MCP client module of the gateway (excalidrawClient).       *)
(***************************************************************************)
VARIABLES
    transports,                 \* the StdioClientTransport objects created by createClient,
                                \* in creation order; the k-th createClient call owns the
                                \* k-th transport and the k-th client promise
    clientPromise,              \* the module variable clientPromise (NoClient = null)
    activeTransport,            \* the module variable activeTransport (NoClient = null)
    shutdownPending,            \* shutdownExcalidrawClient awaits activeTransport.close()
    returned                    \* the promise the last getExcalidrawClient() returned

serverVars == <<transports, clientPromise, activeTransport, shutdownPending, returned>>

vars == <<canvasVars, sessionVars, serverVars>>

(***************************************************************************)
(* Elements.                                                               *)
(***************************************************************************)
\* element ids are never reused; nextId is the next unused one
UsedIds == 1 .. (nextId - 1)

\* the element type is fixed when the element is created
TypeOf(id) == IF id % 2 = 1 THEN "rectangle" ELSE "ellipse"

NewElement(id, v) == [id |-> id, type |-> TypeOf(id), version |-> v]

IdsOf(elements) == {elements[i].id : i \in 1 .. Len(elements)}

HasId(elements, id) == \E i \in 1 .. Len(elements) : elements[i].id = id

\* Map.get(id) of new Map(elements.map((el) => [el.id, el])): the last entry wins
Lookup(elements, id) ==
    LET idx == {i \in 1 .. Len(elements) : elements[i].id = id}
    IN  elements[CHOOSE i \in idx : \A j \in idx : j <= i]

(***************************************************************************)
(* describeCanvasChanges                                                   *)
(***************************************************************************)
Added(currentElements, previousElements) ==
    SelectSeq(currentElements, LAMBDA el : ~HasId(previousElements, el.id))

Removed(currentElements, previousElements) ==
    SelectSeq(previousElements, LAMBDA el : ~HasId(currentElements, el.id))

\* faulty variant: an element without a previous entry counts as modified
ModifiedOrNew(currentElements, previousElements) ==
    SelectSeq(currentElements,
              LAMBDA el : \/ ~HasId(previousElements, el.id)
                          \/ Lookup(previousElements, el.id).version # el.version)

Modified(currentElements, previousElements) ==
    SelectSeq(currentElements,
              LAMBDA el : /\ HasId(previousElements, el.id)
                          /\ Lookup(previousElements, el.id).version # el.version)

Null == [null |-> TRUE]

TypesOf(elements) == [i \in 1 .. Len(elements) |-> elements[i].type]

\* The description string, kept as its parts:
\*   "User made changes to canvas: Added n element(s): t1, t2; Removed n element(s); Modified n element(s)"
describeCanvasChanges(currentElements, previousElements) ==
    LET added    == Added(currentElements, previousElements)
        removed  == Removed(currentElements, previousElements)
        modified == Modified(currentElements, previousElements)
    IN  IF Len(added) = 0 /\ Len(removed) = 0 /\ Len(modified) = 0
        THEN Null
        ELSE [added    |-> Len(added),
              types    |-> TypesOf(added),
              removed  |-> Len(removed),
              modified |-> Len(modified)]

(***************************************************************************)
(* The WebSocket of the canvas app.                                        *)
(***************************************************************************)
\* websocketRef.current = null
NoSocket == 0

NewSocket(api) == [readyState |-> "connecting", excalidrawAPI |-> api]

\* the app connected: the socket created once the Excalidraw API was there is
\* open
ConnectedInit ==
    /\ sockets = <<[readyState |-> "open", excalidrawAPI |-> TRUE]>>
    /\ websocketRef = 1
    /\ isConnected = TRUE
    /\ excalidrawAPI = TRUE
    /\ reconnectTimers = <<>>

\* the app as mounted: the mount effect called connectWebSocket() before the
\* Excalidraw API was there
MountInit ==
    /\ sockets = <<NewSocket(FALSE)>>
    /\ websocketRef = 1
    /\ isConnected = FALSE
    /\ excalidrawAPI = FALSE
    /\ reconnectTimers = <<>>

\* the sockets that are connecting or open
LiveSockets ==
    {s \in 1 .. Len(sockets) : sockets[s].readyState \in {"connecting", "open"}}

\* connectWebSocket() of a render whose excalidrawAPI is api, the sockets
\* being socks: it returns only when the socket of websocketRef is open
connectWebSocket(socks, api) ==
    IF websocketRef # NoSocket /\ socks[websocketRef].readyState = "open"
    THEN /\ sockets' = socks
         /\ UNCHANGED websocketRef
    ELSE /\ Len(socks) < MaxSockets
         /\ sockets' = Append(socks, NewSocket(api))
         /\ websocketRef' = Len(socks) + 1

\* the effect of [excalidrawAPI, isConnected], run after one of them changed
connectionEffect(socks, api, connected) ==
    IF api /\ ~connected
    THEN connectWebSocket(socks, api)
    ELSE /\ sockets' = socks
         /\ UNCHANGED websocketRef

\* Excalidraw hands over its API: setExcalidrawAPI(api)
ExcalidrawReady ==
    /\ ~excalidrawAPI
    /\ excalidrawAPI' = TRUE
    /\ connectionEffect(sockets, TRUE, isConnected)
    /\ UNCHANGED <<isConnected, reconnectTimers>>
    /\ UNCHANGED drawVars
    /\ UNCHANGED <<sessionVars, serverVars>>

\* onopen of socket s
SocketOpen(s) ==
    /\ s \in 1 .. Len(sockets)
    /\ sockets[s].readyState = "connecting"
    /\ isConnected' = TRUE
    /\ sockets' = [sockets EXCEPT ![s].readyState = "open"]
    /\ UNCHANGED <<websocketRef, excalidrawAPI, reconnectTimers>>
    /\ UNCHANGED drawVars
    /\ UNCHANGED <<sessionVars, serverVars>>

\* onclose of socket s (after onerror when the connection failed): a close
\* with a code other than 1000 schedules connectWebSocket of the render that
\* created the socket
SocketClose(s, clean) ==
    /\ s \in 1 .. Len(sockets)
    /\ sockets[s].readyState \in {"connecting", "open"}
    /\ isConnected' = FALSE
    /\ reconnectTimers' = IF clean THEN reconnectTimers
                          ELSE Append(reconnectTimers, sockets[s].excalidrawAPI)
    /\ IF isConnected
       THEN connectionEffect([sockets EXCEPT ![s].readyState = "closed"],
                             excalidrawAPI, FALSE)
       ELSE /\ sockets' = [sockets EXCEPT ![s].readyState = "closed"]
            /\ UNCHANGED websocketRef
    /\ UNCHANGED excalidrawAPI
    /\ UNCHANGED drawVars
    /\ UNCHANGED <<sessionVars, serverVars>>

\* setTimeout(connectWebSocket, 3000) fires
ReconnectTimeout ==
    /\ reconnectTimers # <<>>
    /\ reconnectTimers' = Tail(reconnectTimers)
    /\ connectWebSocket(sockets, Head(reconnectTimers))
    /\ UNCHANGED <<isConnected, excalidrawAPI>>
    /\ UNCHANGED drawVars
    /\ UNCHANGED <<sessionVars, serverVars>>

NextSockets ==
    \/ ExcalidrawReady
    \/ \E s \in 1 .. MaxSockets : SocketOpen(s)
    \/ \E s \in 1 .. MaxSockets : \E clean \in BOOLEAN : SocketClose(s, clean)
    \/ ReconnectTimeout

(***************************************************************************)
(* The MCP client of the gateway.                                          *)
(***************************************************************************)
\* clientPromise = null, activeTransport = null
NoClient == 0

TransportIds == 1 .. MaxTransports

ServerInit ==
    /\ transports = <<>>
    /\ clientPromise = NoClient
    /\ activeTransport = NoClient
    /\ shutdownPending = FALSE
    /\ returned = NoClient

\* the state of the promise createClient call k returned
PromiseState(k) ==
    CASE transports[k].state = "connecting" -> "pending"
      [] transports[k].state = "failed" -> "rejected"
      [] OTHER -> "fulfilled"

\* the transports whose server process runs or is being started
LiveTransports ==
    {k \in 1 .. Len(transports) : transports[k].state \in {"connecting", "connected"}}

\* const transport = new StdioClientTransport(...); await client.connect(transport)
createClient == Append(transports, [state |-> "connecting"])

\* getExcalidrawClient(): createClient only when clientPromise is null
getExcalidrawClient ==
    /\ IF clientPromise = NoClient
       THEN /\ Len(transports) < MaxTransports
            /\ transports' = createClient
            /\ clientPromise' = Len(transports) + 1
       ELSE UNCHANGED <<transports, clientPromise>>
    /\ returned' = clientPromise'
    /\ UNCHANGED <<activeTransport, shutdownPending>>
    /\ UNCHANGED <<canvasVars, sessionVars>>

\* client.connect(transport) resolves: activeTransport = transport, the
\* onclose and onerror handlers are installed, the promise is fulfilled
ConnectSucceeds(k) ==
    /\ k \in 1 .. Len(transports)
    /\ transports[k].state = "connecting"
    /\ transports' = [transports EXCEPT ![k].state = "connected"]
    /\ activeTransport' = k
    /\ UNCHANGED <<clientPromise, shutdownPending, returned>>
    /\ UNCHANGED <<canvasVars, sessionVars>>

\* client.connect(transport) rejects: the catch block closes the transport
\* and rethrows, the promise is rejected
ConnectFails(k) ==
    /\ k \in 1 .. Len(transports)
    /\ transports[k].state = "connecting"
    /\ transports' = [transports EXCEPT ![k].state = "failed"]
    /\ UNCHANGED <<clientPromise, activeTransport, shutdownPending, returned>>
    /\ UNCHANGED <<canvasVars, sessionVars>>

\* transport.onclose of a connected transport (its process ended, or close()
\* was called on it)
TransportClose(k) ==
    /\ k \in 1 .. Len(transports)
    /\ transports[k].state \in {"connected", "closing"}
    /\ transports' = [transports EXCEPT ![k].state = "closed"]
    /\ clientPromise' = NoClient
    /\ activeTransport' = NoClient
    /\ UNCHANGED <<shutdownPending, returned>>
    /\ UNCHANGED <<canvasVars, sessionVars>>

\* transport.onerror of a connected transport; the error does not end the
\* process, a close may follow
TransportError(k) ==
    /\ k \in 1 .. Len(transports)
    /\ transports[k].state = "connected"
    /\ clientPromise' = NoClient
    /\ activeTransport' = NoClient
    /\ UNCHANGED <<transports, shutdownPending, returned>>
    /\ UNCHANGED <<canvasVars, sessionVars>>

\* shutdownExcalidrawClient() up to its await
ShutdownStart ==
    /\ ~shutdownPending
    /\ IF activeTransport # NoClient
       THEN /\ transports' = [transports EXCEPT ![activeTransport].state =
                                 IF @ = "connected" THEN "closing" ELSE @]
            /\ shutdownPending' = TRUE
            /\ UNCHANGED clientPromise
       ELSE /\ clientPromise' = NoClient
            /\ UNCHANGED <<transports, shutdownPending>>
    /\ UNCHANGED <<activeTransport, returned>>
    /\ UNCHANGED <<canvasVars, sessionVars>>

\* shutdownExcalidrawClient() after activeTransport.close() resolved
ShutdownFinish ==
    /\ shutdownPending
    /\ \A k \in 1 .. Len(transports) : transports[k].state # "closing"
    /\ shutdownPending' = FALSE
    /\ activeTransport' = NoClient
    /\ clientPromise' = NoClient
    /\ UNCHANGED <<transports, returned>>
    /\ UNCHANGED <<canvasVars, sessionVars>>

NextServer ==
    \/ getExcalidrawClient
    \/ \E k \in TransportIds : ConnectSucceeds(k)
    \/ \E k \in TransportIds : ConnectFails(k)
    \/ \E k \in TransportIds : TransportClose(k)
    \/ \E k \in TransportIds : TransportError(k)
    \/ ShutdownStart
    \/ ShutdownFinish

(***************************************************************************)
(* Canvas app: initial state (Excalidraw mounted with initialData          *)
(* elements: [], all refs at their useRef initial values).                 *)
(***************************************************************************)
DrawInit ==
    /\ scene = <<>>
    /\ nextId = 1
    /\ pendingNotify = FALSE
    /\ isApplyingRemoteUpdateRef = FALSE
    /\ remoteUpdateTimeoutRef = NoTimer
    /\ lastElementsRef = <<>>
    /\ changeTimeoutRef = NoTimer
    /\ debounceElements = <<>>
    /\ windowTimeouts = 0
    /\ changeTimeouts = 0
    /\ emitted = <<>>
    /\ canvasOps = 0
    /\ userTouched = {}
    /\ netAdded = {} /\ netRemoved = {} /\ netModified = {}
    /\ windowSinceSchedule = FALSE
    /\ lastNotified = <<>>
    /\ clearCanvasPending = FALSE
    /\ clearNotify = "none"
    /\ lastOp = "init"
    /\ mermaidPending = FALSE

CanvasInit == DrawInit /\ ConnectedInit

(***************************************************************************)
(* handleCanvasChange: the synchronous part run for every onChange.        *)
(***************************************************************************)
\* faulty variant: the pending window timer is not cleared
RestartWindowTimerNoClear == windowTimeouts + 1

\* if (remoteUpdateTimeoutRef.current) clearTimeout(...); then setTimeout:
\* the number of window timers pending afterwards
RestartWindowTimer ==
    (IF remoteUpdateTimeoutRef # NoTimer THEN windowTimeouts - 1 ELSE windowTimeouts) + 1

\* faulty variant: the pending debounce timer is not cleared
RestartChangeTimerNoClear == changeTimeouts + 1

\* if (changeTimeoutRef.current) clearTimeout(...); then setTimeout: the
\* number of debounce timers pending afterwards
RestartChangeTimer ==
    (IF changeTimeoutRef # NoTimer THEN changeTimeouts - 1 ELSE changeTimeouts) + 1

\* faulty variant: the ignored branch returns without updating the reference
handleCanvasChangeKeepsBaseline(elements) ==
    /\ lastNotified' = elements
    /\ emitted' = emitted
    /\ IF isApplyingRemoteUpdateRef
       THEN UNCHANGED <<lastElementsRef, changeTimeoutRef, debounceElements,
                        changeTimeouts, windowSinceSchedule>>
       ELSE /\ changeTimeoutRef' = DebounceTicks
            /\ changeTimeouts' = RestartChangeTimer
            /\ debounceElements' = elements
            /\ windowSinceSchedule' = FALSE
            /\ UNCHANGED lastElementsRef

handleCanvasChange(elements) ==
    /\ lastNotified' = elements
    /\ emitted' = emitted
    /\ IF isApplyingRemoteUpdateRef
       THEN \* ignored as an LLM update; the reference is still updated
            /\ lastElementsRef' = elements
            /\ UNCHANGED <<changeTimeoutRef, debounceElements, changeTimeouts,
                           windowSinceSchedule>>
       ELSE \* clearTimeout + setTimeout(..., 2000) capturing `elements`
            /\ changeTimeoutRef' = DebounceTicks
            /\ changeTimeouts' = RestartChangeTimer
            /\ debounceElements' = elements
            /\ windowSinceSchedule' = FALSE
            /\ UNCHANGED lastElementsRef

\* history: the user's net changes, restarted whenever the baseline is set
NetAfterNotify(na, nr, nm) ==
    IF isApplyingRemoteUpdateRef
    THEN netAdded' = {} /\ netRemoved' = {} /\ netModified' = {}
    ELSE netAdded' = na /\ netRemoved' = nr /\ netModified' = nm

\* history: what becomes of clearNotify when a notification is handled;
\* fromClear: the notification is the one clearCanvas caused
ClearNotifyAfter(fromClear) ==
    IF isApplyingRemoteUpdateRef
    THEN IF fromClear THEN "none" ELSE clearNotify
    ELSE IF fromClear THEN "debounced"
         ELSE IF clearNotify = "debounced" THEN "none" ELSE clearNotify

NotifyOp == IF isApplyingRemoteUpdateRef THEN "notify_in_window" ELSE "notify_debounced"

\* faulty variant: the callback does not look at the window flag again
DebounceExpireNoRecheck ==
    /\ changeTimeoutRef = 0
    /\ changeTimeoutRef' = NoTimer
    /\ lastElementsRef' = debounceElements
    /\ LET description == describeCanvasChanges(debounceElements, lastElementsRef)
       IN  IF description # Null
           THEN /\ emitted' = Append(emitted,
                       [description  |-> description,
                        elementCount |-> Len(debounceElements)])
                /\ lastOp' = "debounce_emitted"
           ELSE /\ emitted' = emitted
                /\ lastOp' = "debounce_silent"
    /\ netAdded' = {} /\ netRemoved' = {} /\ netModified' = {}
    /\ UNCHANGED <<scene, nextId, pendingNotify, isApplyingRemoteUpdateRef,
                   remoteUpdateTimeoutRef, debounceElements, canvasOps,
                   userTouched, windowSinceSchedule, lastNotified>>
    /\ clearNotify' = IF clearNotify = "debounced" THEN "none" ELSE clearNotify
    /\ UNCHANGED clearCanvasPending
    /\ changeTimeouts' = changeTimeouts - 1
    /\ UNCHANGED windowTimeouts
    /\ UNCHANGED <<mermaidPending, socketVars>>
    /\ UNCHANGED <<sessionVars, serverVars>>

\* The callback of the debounce timer (the closure keeps `elements`).
DebounceExpire ==
    /\ changeTimeoutRef = 0
    /\ changeTimeoutRef' = NoTimer
    /\ lastElementsRef' = debounceElements
    /\ IF isApplyingRemoteUpdateRef
       THEN /\ emitted' = emitted
            /\ lastOp' = "debounce_skipped"
       ELSE LET description == describeCanvasChanges(debounceElements, lastElementsRef)
            IN  IF description # Null
                THEN \* sendCanvasUpdateViaPostMessage + sendCanvasUpdateViaWebSocket
                     /\ emitted' = Append(emitted,
                            [description  |-> description,
                             elementCount |-> Len(debounceElements)])
                     /\ lastOp' = "debounce_emitted"
                ELSE /\ emitted' = emitted
                     /\ lastOp' = "debounce_silent"
    /\ netAdded' = {} /\ netRemoved' = {} /\ netModified' = {}
    /\ UNCHANGED <<scene, nextId, pendingNotify, isApplyingRemoteUpdateRef,
                   remoteUpdateTimeoutRef, debounceElements, canvasOps, userTouched, windowSinceSchedule, lastNotified>>
    /\ clearNotify' = IF clearNotify = "debounced" THEN "none" ELSE clearNotify
    /\ UNCHANGED clearCanvasPending
    /\ changeTimeouts' = changeTimeouts - 1
    /\ UNCHANGED windowTimeouts
    /\ UNCHANGED <<mermaidPending, socketVars>>
    /\ UNCHANGED <<sessionVars, serverVars>>

(***************************************************************************)
(* The user edits the drawing.  Excalidraw renders a user input event      *)
(* synchronously, so its onChange runs in the same task as the edit.       *)
(***************************************************************************)
UserAdd ==
    /\ canvasOps < MaxCanvasOps
    /\ scene' = Append(scene, NewElement(nextId, 1))
    /\ nextId' = nextId + 1
    /\ canvasOps' = canvasOps + 1
    /\ userTouched' = userTouched \cup {nextId}
    /\ NetAfterNotify(netAdded \cup {nextId}, netRemoved, netModified)
    /\ handleCanvasChange(scene')
    /\ lastOp' = NotifyOp
    /\ UNCHANGED <<pendingNotify, isApplyingRemoteUpdateRef, remoteUpdateTimeoutRef>>
    /\ clearNotify' = ClearNotifyAfter(FALSE)
    /\ UNCHANGED clearCanvasPending
    /\ UNCHANGED windowTimeouts
    /\ UNCHANGED <<mermaidPending, socketVars>>
    /\ UNCHANGED <<sessionVars, serverVars>>

UserModify(i) ==
    /\ canvasOps < MaxCanvasOps
    /\ i \in 1 .. Len(scene)
    /\ scene' = [scene EXCEPT ![i].version = @ + 1]
    /\ canvasOps' = canvasOps + 1
    /\ userTouched' = userTouched \cup {scene[i].id}
    /\ UNCHANGED nextId
    /\ NetAfterNotify(netAdded, netRemoved,
                      IF scene[i].id \in netAdded THEN netModified
                      ELSE netModified \cup {scene[i].id})
    /\ handleCanvasChange(scene')
    /\ lastOp' = NotifyOp
    /\ UNCHANGED <<pendingNotify, isApplyingRemoteUpdateRef, remoteUpdateTimeoutRef>>
    /\ clearNotify' = ClearNotifyAfter(FALSE)
    /\ UNCHANGED clearCanvasPending
    /\ UNCHANGED windowTimeouts
    /\ UNCHANGED <<mermaidPending, socketVars>>
    /\ UNCHANGED <<sessionVars, serverVars>>

UserRemove(i) ==
    /\ canvasOps < MaxCanvasOps
    /\ i \in 1 .. Len(scene)
    /\ scene' = SelectSeq(scene, LAMBDA el : el.id # scene[i].id)
    /\ canvasOps' = canvasOps + 1
    /\ userTouched' = userTouched \cup {scene[i].id}
    /\ UNCHANGED nextId
    /\ IF scene[i].id \in netAdded
       THEN NetAfterNotify(netAdded \ {scene[i].id}, netRemoved, netModified)
       ELSE NetAfterNotify(netAdded, netRemoved \cup {scene[i].id},
                           netModified \ {scene[i].id})
    /\ handleCanvasChange(scene')
    /\ lastOp' = NotifyOp
    /\ UNCHANGED <<pendingNotify, isApplyingRemoteUpdateRef, remoteUpdateTimeoutRef>>
    /\ clearNotify' = ClearNotifyAfter(FALSE)
    /\ UNCHANGED clearCanvasPending
    /\ UNCHANGED windowTimeouts
    /\ UNCHANGED <<mermaidPending, socketVars>>
    /\ UNCHANGED <<sessionVars, serverVars>>

\* onChange for a change of the app state only (selection, pointer, zoom)
UserTouch ==
    /\ canvasOps < MaxCanvasOps
    /\ canvasOps' = canvasOps + 1
    /\ NetAfterNotify(netAdded, netRemoved, netModified)
    /\ handleCanvasChange(scene)
    /\ lastOp' = NotifyOp
    /\ UNCHANGED <<scene, nextId, pendingNotify, isApplyingRemoteUpdateRef,
                   remoteUpdateTimeoutRef, userTouched>>
    /\ clearNotify' = ClearNotifyAfter(FALSE)
    /\ UNCHANGED clearCanvasPending
    /\ UNCHANGED windowTimeouts
    /\ UNCHANGED <<mermaidPending, socketVars>>
    /\ UNCHANGED <<sessionVars, serverVars>>

\* the onChange Excalidraw raises after an updateScene call
OnChange ==
    /\ pendingNotify
    /\ pendingNotify' = FALSE
    /\ NetAfterNotify(netAdded, netRemoved, netModified)
    /\ handleCanvasChange(scene)
    /\ lastOp' = NotifyOp
    /\ UNCHANGED <<scene, nextId, isApplyingRemoteUpdateRef,
                   remoteUpdateTimeoutRef, canvasOps, userTouched>>
    /\ clearNotify' = ClearNotifyAfter(clearNotify = "pending")
    /\ UNCHANGED clearCanvasPending
    /\ UNCHANGED windowTimeouts
    /\ UNCHANGED <<mermaidPending, socketVars>>
    /\ UNCHANGED <<sessionVars, serverVars>>

(***************************************************************************)
(* handleWebSocketMessage.  A message is the record                        *)
(*   [type, elements, elementId]                                           *)
(* elements: data.elements or <<data.element>> of a create message after   *)
(* cleanElementForExcalidraw and convertToExcalidrawElements; elementId:   *)
(* data.elementId or data.element.id of an update or delete message.  The  *)
(* element an update converts carries the next version.                    *)
(***************************************************************************)
MarkedTypes == {"initial_elements", "element_created", "element_updated",
                "element_deleted", "elements_batch_created", "mermaid_convert"}

shouldMarkAsRemote(data) == data.type \in MarkedTypes

\* fresh elements a server message can carry: the next n unused ids
FreshElements(n) == [i \in 1 .. n |-> NewElement(nextId + i - 1, 1)]

WsMessages ==
    {[type |-> t, elements |-> FreshElements(n), elementId |-> 0] :
        t \in {"initial_elements", "elements_batch_created"}, n \in 1 .. 2}
    \cup
    {[type |-> "element_created", elements |-> FreshElements(1), elementId |-> 0]}
    \cup
    {[type |-> t, elements |-> <<>>, elementId |-> id] :
        t \in {"element_updated", "element_deleted"}, id \in UsedIds}
    \cup
    {[type |-> t, elements |-> <<>>, elementId |-> 0] :
        t \in {"elements_cleared", "elements_synced", "sync_status"}}

\* the scene passed to updateScene by the switch, and whether updateScene is called
SceneAfter(data) ==
    CASE data.type = "initial_elements"       -> data.elements
      [] data.type = "element_created"        -> scene \o data.elements
      [] data.type = "element_updated"        ->
            [i \in 1 .. Len(scene) |->
                IF scene[i].id = data.elementId
                THEN NewElement(data.elementId, scene[i].version + 1)
                ELSE scene[i]]
      [] data.type = "element_deleted"        ->
            SelectSeq(scene, LAMBDA el : el.id # data.elementId)
      [] data.type = "elements_batch_created" -> scene \o data.elements
      [] data.type = "elements_cleared"       -> <<>>
      [] OTHER                                -> scene

UpdatesScene(data) ==
    data.type \in {"initial_elements", "element_created", "element_updated",
                   "element_deleted", "elements_batch_created", "elements_cleared"}

handleWebSocketMessage(data) ==
    /\ canvasOps < MaxCanvasOps
    /\ canvasOps' = canvasOps + 1
    /\ IF shouldMarkAsRemote(data) \/ data.type = "elements_cleared"
       THEN /\ isApplyingRemoteUpdateRef' = TRUE
            /\ remoteUpdateTimeoutRef' = WindowTicks
            /\ windowTimeouts' = RestartWindowTimer
            /\ windowSinceSchedule' = TRUE
       ELSE UNCHANGED <<isApplyingRemoteUpdateRef, remoteUpdateTimeoutRef,
                        windowTimeouts, windowSinceSchedule>>
    /\ scene' = SceneAfter(data)
    /\ nextId' = nextId + Len(data.elements)
    /\ pendingNotify' = (pendingNotify \/ UpdatesScene(data))
    /\ lastOp' = IF UpdatesScene(data) THEN "ws_update" ELSE "ws_message"
    /\ UNCHANGED <<lastElementsRef, changeTimeoutRef, debounceElements, emitted,
                   userTouched, netAdded, netRemoved,
                   netModified, lastNotified>>
    /\ UNCHANGED <<clearCanvasPending, clearNotify>>
    /\ UNCHANGED changeTimeouts
    /\ UNCHANGED <<mermaidPending, socketVars>>
    /\ UNCHANGED <<sessionVars, serverVars>>

\* loadExistingElements: GET /api/elements answers with the elements the
\* server holds (here: elements the canvas has not seen); an empty answer
\* changes nothing.  It runs when the Excalidraw API becomes available, when
\* the connection state changes and 100 ms after the WebSocket opens.
loadExistingElements ==
    /\ canvasOps < MaxCanvasOps
    /\ canvasOps' = canvasOps + 1
    /\ scene' = FreshElements(1)
    /\ nextId' = nextId + 1
    /\ pendingNotify' = TRUE
    /\ lastOp' = "load_existing"
    /\ UNCHANGED <<isApplyingRemoteUpdateRef, remoteUpdateTimeoutRef,
                   lastElementsRef, changeTimeoutRef, debounceElements, emitted,
                   userTouched, netAdded, netRemoved, netModified,
                   windowSinceSchedule, lastNotified>>
    /\ UNCHANGED <<clearCanvasPending, clearNotify>>
    /\ UNCHANGED <<windowTimeouts, changeTimeouts>>
    /\ UNCHANGED <<mermaidPending, socketVars>>
    /\ UNCHANGED <<sessionVars, serverVars>>

\* clearCanvas up to its first await: the flag is set, no timer is touched
ClearCanvasStart ==
    /\ canvasOps < MaxCanvasOps
    /\ ~clearCanvasPending
    /\ canvasOps' = canvasOps + 1
    /\ clearCanvasPending' = TRUE
    /\ isApplyingRemoteUpdateRef' = TRUE
    /\ windowSinceSchedule' = TRUE
    /\ lastOp' = "clear_start"
    /\ UNCHANGED <<scene, nextId, pendingNotify, remoteUpdateTimeoutRef,
                   lastElementsRef, changeTimeoutRef, debounceElements, emitted,
                   userTouched, netAdded, netRemoved, netModified, lastNotified,
                   clearNotify>>
    /\ UNCHANGED <<windowTimeouts, changeTimeouts>>
    /\ UNCHANGED <<mermaidPending, socketVars>>
    /\ UNCHANGED <<sessionVars, serverVars>>

\* clearCanvas after its requests: the scene is emptied and the window timer
\* restarted; only the catch block sets the flag again
ClearCanvasFinish(ok) ==
    /\ clearCanvasPending
    /\ clearCanvasPending' = FALSE
    /\ isApplyingRemoteUpdateRef' = IF ok THEN isApplyingRemoteUpdateRef ELSE TRUE
    /\ windowSinceSchedule' = (windowSinceSchedule \/ isApplyingRemoteUpdateRef')
    /\ scene' = <<>>
    /\ pendingNotify' = TRUE
    /\ remoteUpdateTimeoutRef' = WindowTicks
    /\ clearNotify' = "pending"
    /\ lastOp' = "clear_canvas"
    /\ UNCHANGED <<nextId, lastElementsRef, changeTimeoutRef, debounceElements,
                   emitted, canvasOps, userTouched, netAdded, netRemoved,
                   netModified, lastNotified>>
    /\ windowTimeouts' = RestartWindowTimer
    /\ UNCHANGED changeTimeouts
    /\ UNCHANGED <<mermaidPending, socketVars>>
    /\ UNCHANGED <<sessionVars, serverVars>>

\* a mermaid_convert message up to its await: the window is opened and its
\* timer restarted before the switch, then the conversion is awaited
MermaidConvertStart ==
    /\ canvasOps < MaxCanvasOps
    /\ ~mermaidPending
    /\ shouldMarkAsRemote([type |-> "mermaid_convert"])
    /\ canvasOps' = canvasOps + 1
    /\ mermaidPending' = TRUE
    /\ isApplyingRemoteUpdateRef' = TRUE
    /\ remoteUpdateTimeoutRef' = WindowTicks
    /\ windowTimeouts' = RestartWindowTimer
    /\ windowSinceSchedule' = TRUE
    /\ lastOp' = "mermaid_start"
    /\ UNCHANGED <<scene, nextId, pendingNotify, lastElementsRef, changeTimeoutRef,
                   debounceElements, changeTimeouts, emitted, userTouched,
                   netAdded, netRemoved, netModified, lastNotified,
                   clearCanvasPending, clearNotify>>
    /\ UNCHANGED socketVars
    /\ UNCHANGED <<sessionVars, serverVars>>

\* the conversion settles: with elements, which updateScene makes the scene
\* (neither the flag nor the timer is touched again), or with result.error or
\* an exception, which end the handler
MermaidConvertFinish(outcome) ==
    /\ mermaidPending
    /\ mermaidPending' = FALSE
    /\ IF outcome = "elements"
       THEN /\ scene' = FreshElements(1)
            /\ nextId' = nextId + 1
            /\ pendingNotify' = TRUE
            /\ lastOp' = "mermaid_applied"
       ELSE /\ UNCHANGED <<scene, nextId, pendingNotify>>
            /\ lastOp' = "mermaid_failed"
    /\ UNCHANGED <<isApplyingRemoteUpdateRef, remoteUpdateTimeoutRef, windowTimeouts,
                   windowSinceSchedule, lastElementsRef, changeTimeoutRef,
                   debounceElements, changeTimeouts, emitted, canvasOps, userTouched,
                   netAdded, netRemoved, netModified, lastNotified,
                   clearCanvasPending, clearNotify>>
    /\ UNCHANGED socketVars
    /\ UNCHANGED <<sessionVars, serverVars>>

\* the callback of the window timer
WindowExpire ==
    /\ remoteUpdateTimeoutRef = 0
    /\ remoteUpdateTimeoutRef' = NoTimer
    /\ isApplyingRemoteUpdateRef' = FALSE
    /\ lastOp' = "window_expire"
    /\ UNCHANGED <<scene, nextId, pendingNotify, lastElementsRef, changeTimeoutRef,
                   debounceElements, emitted, canvasOps, userTouched,
                   netAdded, netRemoved, netModified, windowSinceSchedule,
                   lastNotified>>
    /\ UNCHANGED <<clearCanvasPending, clearNotify>>
    /\ windowTimeouts' = windowTimeouts - 1
    /\ UNCHANGED changeTimeouts
    /\ UNCHANGED <<mermaidPending, socketVars>>
    /\ UNCHANGED <<sessionVars, serverVars>>

(***************************************************************************)
(* 500 ms pass.  A due timer runs before time moves on, and Excalidraw     *)
(* raises the onChange of an updateScene well within one tick.             *)
(***************************************************************************)
Tick ==
    /\ ~pendingNotify
    /\ remoteUpdateTimeoutRef # 0
    /\ changeTimeoutRef # 0
    /\ remoteUpdateTimeoutRef > 0 \/ changeTimeoutRef > 0
    /\ remoteUpdateTimeoutRef' =
          IF remoteUpdateTimeoutRef > 0 THEN remoteUpdateTimeoutRef - 1 ELSE NoTimer
    /\ changeTimeoutRef' =
          IF changeTimeoutRef > 0 THEN changeTimeoutRef - 1 ELSE NoTimer
    /\ lastOp' = "tick"
    /\ UNCHANGED <<scene, nextId, pendingNotify, isApplyingRemoteUpdateRef,
                   lastElementsRef, debounceElements, emitted, canvasOps, userTouched, netAdded, netRemoved, netModified,
                   windowSinceSchedule, lastNotified>>
    /\ UNCHANGED <<clearCanvasPending, clearNotify>>
    /\ UNCHANGED <<windowTimeouts, changeTimeouts>>
    /\ UNCHANGED <<mermaidPending, socketVars>>
    /\ UNCHANGED <<sessionVars, serverVars>>

NextCanvas ==
    \/ UserAdd
    \/ \E i \in 1 .. Len(scene) : UserModify(i)
    \/ \E i \in 1 .. Len(scene) : UserRemove(i)
    \/ UserTouch
    \/ OnChange
    \/ \E data \in WsMessages : handleWebSocketMessage(data)
    \/ loadExistingElements
    \/ ClearCanvasStart
    \/ \E ok \in BOOLEAN : ClearCanvasFinish(ok)
    \/ WindowExpire
    \/ DebounceExpire
    \/ Tick

(***************************************************************************)
(* Session hook (useRealtimeSession.ts).                                   *)
(*                                                                         *)
(* The model starts in an active session: startSession has run, the        *)
(* "open" handler of the data channel has sent session.update and its      *)
(* 500 ms timer has sent the start message and response.create.            *)
(***************************************************************************)
\* dataChannelRef.current = null
NoChannel == 0
\* the data channel created by startSession
FirstChannel == 1
\* item.call_id is absent
NoCallId == 0
\* call ids the server uses
CallIds == 1 .. MaxCallIds
\* item.name is absent (or empty): !item.name
NoName == ""
ToolNames == {"create_element"}
\* store.executingTool = null
NoTool == "null"
\* item.arguments is absent
Undefined == "undefined"
\* argument strings the server sends: none, empty, a JSON text, a broken text
ArgumentTexts == {Undefined, "", "{}", "{x"}
\* the texts JSON.parse accepts (the empty string is not one of them)
ValidJsonTexts == {"{}"}

\* ---- messages: [type, item] --------------------------------------------
NoItem == [type |-> "none", call_id |-> NoCallId, name |-> NoName,
           arguments |-> Undefined]

MessageItem == [type |-> "message", call_id |-> NoCallId, name |-> NoName,
                arguments |-> Undefined]

\* function_call items.  The arguments of an item without a name are never
\* read, and an item without arguments takes the branch of the empty string
\* (if (item.arguments)), so named items carry a string.
FunctionCallItems ==
    {[type |-> "function_call", call_id |-> c, name |-> n, arguments |-> a] :
        c \in CallIds, n \in ToolNames, a \in ArgumentTexts \ {Undefined}}
    \cup
    {[type |-> "function_call", call_id |-> c, name |-> NoName,
      arguments |-> Undefined] : c \in CallIds}

ArgumentsDone == "response.function_call_arguments.done"
OutputItemDone == "response.output_item.done"
SpeechStarted == "input_audio_buffer.speech_started"
SpeechStopped == "input_audio_buffer.speech_stopped"
\* a type no branch of the message handler names
Unrecognized == "rate_limits.updated"

\* the events the server can send on the data channel
ServerEvents ==
    {[type |-> t, item |-> it] :
        t \in {ArgumentsDone, OutputItemDone}, it \in FunctionCallItems}
    \cup
    {[type |-> ArgumentsDone, item |-> NoItem],
     [type |-> OutputItemDone, item |-> MessageItem]}
    \cup
    {[type |-> t, item |-> NoItem] :
        t \in {SpeechStarted, SpeechStopped, "response.created", Unrecognized}}

\* toolsData.tools || []
availableTools(tools) == IF tools = "list" THEN "list" ELSE "[]"

\* session.update with session.tools (the instructions come with the tools)
SessionUpdate(tools) ==
    [type |-> "session.update", item |-> NoItem, tools |-> availableTools(tools)]

UserMessage == [type |-> "conversation.item.create", item |-> MessageItem]

ResponseCreate == [type |-> "response.create", item |-> NoItem]

FunctionCallOutput(call_id, output) ==
    [type |-> "conversation.item.create",
     item |-> [type |-> "function_call_output", call_id |-> call_id,
               output |-> output]]

\* JSON.stringify({ error: ..., success: false })
errorOutput(message) == [error |-> message, success |-> FALSE]

\* ---- the gateway (POST /api/realtime/tool) -----------------------------
InvalidJson == "Invalid JSON in arguments"
NetworkError == "Failed to fetch"
HttpError == "Tool execution failed (500)"
BodyError == "Unexpected token in JSON"
SendError == "InvalidStateError"
NoError == "none"

\* how the request ends: fetch rejects, the status is not OK, the body is
\* not JSON, or one of the three result shapes
FailureOutcomes == {"network_error", "http_error", "invalid_body"}
SuccessOutcomes == {"content", "result", "response"}
GatewayOutcomes == FailureOutcomes \cup SuccessOutcomes

ErrorOf(outcome) ==
    CASE outcome = "network_error" -> NetworkError
      [] outcome = "http_error"    -> HttpError
      [] outcome = "invalid_body"  -> BodyError

\* outputText: the joined text parts, JSON of result.result, or JSON of result
OutputTextOf(outcome) ==
    CASE outcome = "content"  -> [text |-> "content text"]
      [] outcome = "result"   -> [text |-> "result json"]
      [] outcome = "response" -> [text |-> "response json"]

\* ---- sendClientEvent and addEvent --------------------------------------
\* a log is the pair [sent, events]
Log == [sent |-> sent, events |-> events]

addEvent(evs, event) == <<event>> \o evs

\* what the log shows of a server event: its type and which item it is about
Logged(event) ==
    [type |-> event.type,
     item |-> [type |-> event.item.type, call_id |-> event.item.call_id]]

\* dataChannel.send throws on a channel that is not open
sendThrows == dataChannelRef # NoChannel /\ channelState[dataChannelRef] # "open"

\* history: the channels of the messages sent so far, given the new value of sent
SentChannelsAfter(newSent, channel) ==
    sentChannels \o [n \in 1 .. (Len(newSent) - Len(sent)) |-> channel]

sendClientEvent(log, message) ==
    IF dataChannelRef # NoChannel /\ ~sendThrows
    THEN [sent |-> Append(log.sent, message),
          events |-> addEvent(log.events, message)]
    ELSE log

\* ---- handleFunctionCall ------------------------------------------------
\* faulty variant: a parse failure is logged and the call goes on with {}
ParseArgumentsSwallowsError(arguments) ==
    IF arguments = Undefined \/ arguments = ""
    THEN [threw |-> FALSE, args |-> "{}"]
    ELSE IF arguments \in ValidJsonTexts
         THEN [threw |-> FALSE, args |-> arguments]
         ELSE [threw |-> FALSE, args |-> "{}"]

\* let args = {}; if (item.arguments) { args = JSON.parse(item.arguments) }
ParseArguments(arguments) ==
    IF arguments = Undefined \/ arguments = ""
    THEN [threw |-> FALSE, args |-> "{}"]
    ELSE IF arguments \in ValidJsonTexts
         THEN [threw |-> FALSE, args |-> arguments]
         ELSE [threw |-> TRUE, args |-> "{}"]

\* faulty variant: the catch block sends the error and no continuation
catchErrorNoContinuation(log, call_id, message) ==
    sendClientEvent(log, FunctionCallOutput(call_id, errorOutput(message)))

\* the catch block: the error output, then response.create
catchError(log, call_id, message) ==
    sendClientEvent(
        sendClientEvent(log, FunctionCallOutput(call_id, errorOutput(message))),
        ResponseCreate)

\* faulty variant: the success path sends the output and no continuation
sendResultNoContinuation(log, call_id, outputText) ==
    sendClientEvent(log, FunctionCallOutput(call_id, outputText))

\* the success path: the output, then response.create
sendResult(log, call_id, outputText) ==
    sendClientEvent(
        sendClientEvent(log, FunctionCallOutput(call_id, outputText)),
        ResponseCreate)

\* the record kept of one invocation; receivedOn is the channel whose listener
\* dispatched it, sentOn is dataChannelRef.current at the
\* time the invocation sent (or tried to send) its output
Invocation(item, status, args, error, sentOn) ==
    [call_id |-> item.call_id, name |-> item.name, arguments |-> item.arguments,
     status |-> status, args |-> args, error |-> error, sentOn |-> sentOn,
     receivedOn |-> dataChannelRef]

\* handleFunctionCall up to its first await: the guard, the parse, and either
\* the catch block or the request to the gateway
handleFunctionCall(item, log) ==
    IF item.name = NoName \/ item.call_id = NoCallId
    THEN [call |-> Invocation(item, "rejected", "{}", NoError, NoChannel),
          log |-> log,
          executingTool |-> executingTool]
    ELSE LET parsed == ParseArguments(item.arguments)
         IN  IF parsed.threw
             THEN [call |-> Invocation(item, "failed", "{}", InvalidJson,
                                       dataChannelRef),
                   log |-> catchError(log, item.call_id, InvalidJson),
                   executingTool |-> NoTool]
             ELSE [call |-> Invocation(item, "fetching", parsed.args, NoError,
                                       NoChannel),
                   log |-> log,
                   executingTool |-> item.name]

\* ---- the message listener ----------------------------------------------
IsTrigger(event) ==
    \/ /\ event.type = ArgumentsDone
       /\ event.item.call_id # NoCallId
    \/ /\ event.type = OutputItemDone
       /\ event.item.type = "function_call"
       /\ event.item.call_id # NoCallId

\* faulty variant: the call id is not remembered
processedCallsAddForgotten(callId) == processedCalls

\* processedCalls.add(callId)
processedCallsAdd(callId) == processedCalls \cup {callId}

\* updateSessionState(active): setSessionActive(active) in the store and
\* onSessionStateChange(active), which is setIsSessionActive of the page; the
\* value the page state takes
updateSessionState(active) == active

\* faulty variant: the Set is shared by the listeners of all channels
listenerEffectKeepsSet(channel) == processedCalls

\* the effect with the dependency [dataChannelRef.current], run by the render
\* that follows a change of the ref: the listener of the old channel is
\* removed with its Set, and the new channel gets a listener with an empty Set
listenerEffect(channel) ==
    IF channel # dataChannelRef THEN {} ELSE processedCalls

\* ---- the start sequence and the objects it creates ------------------------
\* a ref that holds null
NullRef == 0
\* startSession invocations; the objects an invocation creates (peer
\* connection, audio element, microphone stream, data channel) carry its id
SessionIds == 1 .. MaxStarts

\* where an invocation is: not invoked, suspended at an await, finished or
\* failed.  The steps name the await:
\*   "tools"      fetch + json of POST /api/realtime/session
\*   "token"      fetch + json of /api/realtime/token
\*   "microphone" getUserMedia
\*   "ice"        createOffer and setLocalDescription
\*   "gathering"  the ICE-gathering wait
\*   "sdp"        the SDP request
\*   "answer"     setRemoteDescription
SuspendedSteps == {"tools", "token", "microphone", "ice", "gathering", "sdp", "answer"}

\* tools: what toolsData.tools was; key: what data.value was;
\* concurrent: another invocation was negotiating or the session was active
\* when this one was invoked; stopped: stopSession ran while it was suspended;
\* offered, sdpRequested: it created an offer, it sent the SDP request;
\* error: the message of the error it caught;
\* iceGatheringState: pc.iceGatheringState; iceTimer: the 2000 ms timeout of
\* the ICE-gathering wait is pending; iceListener: checkState is attached to
\* icegatheringstatechange; resolved: the flag of finish(); resolves: how
\* often finish() has called resolve();
\* remoteTrack: pc.ontrack has run; autoPlays: the play() calls ontrack made;
\* srcObject: the audio element of this invocation has a stream; plays: the
\* play() promises pending on that element, each with the handler awaiting it
NotStarted ==
    [step |-> "idle", tools |-> "none", key |-> "none", concurrent |-> FALSE,
     stopped |-> FALSE, offered |-> FALSE, sdpRequested |-> FALSE,
     error |-> NoError, iceGatheringState |-> "new", iceTimer |-> FALSE,
     iceListener |-> FALSE, resolved |-> FALSE, resolves |-> 0,
     remoteTrack |-> FALSE, autoPlays |-> 0, srcObject |-> FALSE, plays |-> {}]

Started(step, tools, key) ==
    [step |-> step, tools |-> tools, key |-> key, concurrent |-> FALSE,
     stopped |-> FALSE, offered |-> TRUE, sdpRequested |-> TRUE,
     error |-> NoError, iceGatheringState |-> "complete", iceTimer |-> FALSE,
     iceListener |-> FALSE, resolved |-> TRUE, resolves |-> 1,
     remoteTrack |-> TRUE, autoPlays |-> 1, srcObject |-> TRUE, plays |-> {}]

\* the messages of the errors startSession can throw
ToolsError == "tool catalogue request failed"
TokenError == "token request failed"
MicrophoneDenied == "Microphone access denied"
NegotiationError == "InvalidStateError"
SdpError == "OpenAI API error"

\* alert(`Failed to start session: ${message}`)
alertText(message) == <<"Failed to start session", message>>

SessionInit ==
    /\ dataChannelRef = FirstChannel
    /\ channelState = [i \in SessionIds |-> IF i = FirstChannel THEN "open" ELSE "none"]
    /\ localStream = FirstChannel
    /\ trackState = [i \in SessionIds |-> IF i = FirstChannel THEN "live" ELSE "none"]
    /\ peerConnection = FirstChannel
    /\ pcState = [i \in SessionIds |-> IF i = FirstChannel THEN "open" ELSE "none"]
    /\ audioElement = FirstChannel
    /\ audioState = [i \in SessionIds |-> IF i = FirstChannel THEN "inDom" ELSE "none"]
    /\ isSessionActive = TRUE
    /\ toolsRegistered = TRUE
    /\ microphoneActive = TRUE
    /\ isListening = FALSE
    /\ audioBlocked = FALSE
    /\ processedCalls = {}
    /\ calls = <<>>
    /\ dispatchKinds = <<>>
    /\ sent = <<SessionUpdate("list"), UserMessage, ResponseCreate>>
    /\ sentChannels = <<FirstChannel, FirstChannel, FirstChannel>>
    /\ events = <<SessionUpdate("list")>>
    /\ executingTool = NoTool
    /\ indicatorTimers = 0
    /\ externalSessionActive = TRUE
    /\ sessionOps = 0
    /\ canvasUpdates = <<>>
    /\ starts = [i \in SessionIds |->
                    IF i = FirstChannel THEN Started("done", "list", "key")
                    ELSE NotStarted]
    /\ startTimers = {}
    /\ alerts = <<>>

\* faulty variant: the event is logged after its handling, and only when that
\* made no dispatch
MessageHandlerLogsLast(event) ==
    /\ sessionOps < MaxSessionOps
    /\ dataChannelRef # NoChannel
    /\ channelState[dataChannelRef] = "open"
    /\ sessionOps' = sessionOps + 1
    /\ isListening' = IF event.type = SpeechStarted THEN TRUE
                      ELSE IF event.type = SpeechStopped THEN FALSE
                      ELSE isListening
    /\ LET logged == [sent |-> sent, events |-> addEvent(events, Logged(event))]
       IN  IF IsTrigger(event) /\ event.item.call_id \notin processedCalls
           THEN LET r == handleFunctionCall(event.item, Log)
                IN  /\ processedCalls' = processedCallsAdd(event.item.call_id)
                    /\ calls' = Append(calls, r.call)
                    /\ dispatchKinds' = Append(dispatchKinds, event.type)
                    /\ sent' = r.log.sent
                    /\ events' = r.log.events
                    /\ executingTool' = r.executingTool
           ELSE /\ events' = logged.events
                /\ UNCHANGED <<processedCalls, calls, dispatchKinds, sent,
                             executingTool>>
    /\ sentChannels' = SentChannelsAfter(sent', dataChannelRef)
    /\ UNCHANGED <<isSessionActive, toolsRegistered, microphoneActive, audioBlocked>>
    /\ UNCHANGED <<indicatorTimers, canvasUpdates, resourceVars, startVars>>
    /\ UNCHANGED externalSessionActive
    /\ UNCHANGED <<canvasVars, serverVars>>

\* messageHandler: the listener of the session's data channel
MessageHandler(event) ==
    /\ sessionOps < MaxSessionOps
    /\ dataChannelRef # NoChannel
    /\ channelState[dataChannelRef] = "open"
    /\ sessionOps' = sessionOps + 1
    /\ isListening' = IF event.type = SpeechStarted THEN TRUE
                      ELSE IF event.type = SpeechStopped THEN FALSE
                      ELSE isListening
    /\ LET logged == [sent |-> sent, events |-> addEvent(events, Logged(event))]
       IN  IF IsTrigger(event) /\ event.item.call_id \notin processedCalls
           THEN LET r == handleFunctionCall(event.item, logged)
                IN  /\ processedCalls' = processedCallsAdd(event.item.call_id)
                    /\ calls' = Append(calls, r.call)
                    /\ dispatchKinds' = Append(dispatchKinds, event.type)
                    /\ sent' = r.log.sent
                    /\ events' = r.log.events
                    /\ executingTool' = r.executingTool
           ELSE /\ events' = logged.events
                /\ UNCHANGED <<processedCalls, calls, dispatchKinds, sent,
                             executingTool>>
    /\ sentChannels' = SentChannelsAfter(sent', dataChannelRef)
    /\ UNCHANGED <<isSessionActive, toolsRegistered, microphoneActive, audioBlocked>>
    /\ UNCHANGED <<indicatorTimers, canvasUpdates, resourceVars, startVars>>
    /\ UNCHANGED externalSessionActive
    /\ UNCHANGED <<canvasVars, serverVars>>

\* handleFunctionCall from the end of the gateway request on
GatewayReturn(k, outcome) ==
    /\ k \in 1 .. Len(calls)
    /\ calls[k].status = "fetching"
    /\ IF outcome \in FailureOutcomes \/ sendThrows
       THEN \* the request failed, or sendClientEvent threw on the output
            LET message == IF outcome \in FailureOutcomes THEN ErrorOf(outcome)
                           ELSE SendError
                log == catchError(Log, calls[k].call_id, message)
            IN  /\ sent' = log.sent
                /\ events' = log.events
                /\ executingTool' = NoTool
                /\ indicatorTimers' = indicatorTimers
                /\ calls' = [calls EXCEPT ![k].status = "failed",
                                          ![k].error = message,
                                          ![k].sentOn = dataChannelRef]
       ELSE LET log == sendResult(Log, calls[k].call_id, OutputTextOf(outcome))
            IN  /\ sent' = log.sent
                /\ events' = log.events
                /\ executingTool' = executingTool
                /\ indicatorTimers' = indicatorTimers + 1
                /\ calls' = [calls EXCEPT ![k].status = "succeeded",
                                          ![k].sentOn = dataChannelRef]
    /\ sentChannels' = SentChannelsAfter(sent', dataChannelRef)
    /\ UNCHANGED <<processedCalls, dispatchKinds, sessionOps, canvasUpdates>>
    /\ UNCHANGED <<resourceVars, flagVars, startVars>>
    /\ UNCHANGED externalSessionActive
    /\ UNCHANGED <<canvasVars, serverVars>>

\* setTimeout(() => setExecutingTool(null), 2000) fires
IndicatorTimeout ==
    /\ indicatorTimers > 0
    /\ indicatorTimers' = indicatorTimers - 1
    /\ executingTool' = NoTool
    /\ UNCHANGED <<processedCalls, calls, dispatchKinds, sent, sentChannels, events,
                   sessionOps, canvasUpdates>>
    /\ UNCHANGED <<resourceVars, flagVars, startVars>>
    /\ UNCHANGED externalSessionActive
    /\ UNCHANGED <<canvasVars, serverVars>>

SendTextMessage ==
    /\ sessionOps < MaxSessionOps
    /\ sessionOps' = sessionOps + 1
    /\ LET log == sendClientEvent(sendClientEvent(Log, UserMessage), ResponseCreate)
       IN  /\ sent' = log.sent
           /\ events' = log.events
    /\ sentChannels' = SentChannelsAfter(sent', dataChannelRef)
    /\ UNCHANGED <<processedCalls, calls, dispatchKinds, executingTool,
                   indicatorTimers, canvasUpdates>>
    /\ UNCHANGED <<resourceVars, flagVars, startVars>>
    /\ UNCHANGED externalSessionActive
    /\ UNCHANGED <<canvasVars, serverVars>>

\* the refs, the objects and the flags stopSession works on
Resources ==
    [dataChannelRef |-> dataChannelRef, channelState |-> channelState,
     localStream |-> localStream, trackState |-> trackState,
     peerConnection |-> peerConnection, pcState |-> pcState,
     audioElement |-> audioElement, audioState |-> audioState,
     isSessionActive |-> isSessionActive, toolsRegistered |-> toolsRegistered,
     microphoneActive |-> microphoneActive, isListening |-> isListening,
     audioBlocked |-> audioBlocked]

\* faulty variant: localStream.current is left pointing at the stopped stream
stopSessionKeepsStream(r) ==
    [dataChannelRef |-> NoChannel,
     channelState |->
        IF r.dataChannelRef # NoChannel
        THEN [r.channelState EXCEPT ![r.dataChannelRef] = "closed"]
        ELSE r.channelState,
     localStream |-> r.localStream,
     trackState |->
        [i \in SessionIds |->
            IF (i = r.localStream \/ i = r.peerConnection) /\ r.trackState[i] = "live"
            THEN "ended" ELSE r.trackState[i]],
     peerConnection |-> NullRef,
     pcState |->
        IF r.peerConnection # NullRef
        THEN [r.pcState EXCEPT ![r.peerConnection] = "closed"]
        ELSE r.pcState,
     audioElement |-> NullRef,
     audioState |->
        IF r.audioElement # NullRef /\ r.audioState[r.audioElement] = "inDom"
        THEN [r.audioState EXCEPT ![r.audioElement] = "removed"]
        ELSE r.audioState,
     isSessionActive |-> FALSE, toolsRegistered |-> FALSE,
     microphoneActive |-> FALSE, isListening |-> FALSE, audioBlocked |-> FALSE]

\* stopSession, as a function of the refs, objects and flags
stopSession(r) ==
    [dataChannelRef |-> NoChannel,
     channelState |->
        IF r.dataChannelRef # NoChannel
        THEN [r.channelState EXCEPT ![r.dataChannelRef] = "closed"]
        ELSE r.channelState,
     localStream |-> NullRef,
     \* the tracks of localStream.current and of the senders of
     \* peerConnection.current
     trackState |->
        [i \in SessionIds |->
            IF (i = r.localStream \/ i = r.peerConnection) /\ r.trackState[i] = "live"
            THEN "ended" ELSE r.trackState[i]],
     peerConnection |-> NullRef,
     pcState |->
        IF r.peerConnection # NullRef
        THEN [r.pcState EXCEPT ![r.peerConnection] = "closed"]
        ELSE r.pcState,
     audioElement |-> NullRef,
     audioState |->
        IF r.audioElement # NullRef /\ r.audioState[r.audioElement] = "inDom"
        THEN [r.audioState EXCEPT ![r.audioElement] = "removed"]
        ELSE r.audioState,
     isSessionActive |-> FALSE, toolsRegistered |-> FALSE,
     microphoneActive |-> FALSE, isListening |-> FALSE, audioBlocked |-> FALSE]

\* the release calls stopSession makes in a state: close() of the channel,
\* stop() of tracks, close() of the connection, removeChild of the element
Releases(r) ==
    [channelsClosed |-> {r.dataChannelRef} \ {NoChannel},
     tracksStopped |->
        ({r.localStream} \ {NullRef})
        \cup {i \in SessionIds : i = r.peerConnection /\ r.trackState[i] # "none"},
     connectionsClosed |-> {r.peerConnection} \ {NullRef},
     elementsRemoved |->
        {i \in SessionIds : i = r.audioElement /\ r.audioState[i] = "inDom"}]

StopSession ==
    /\ LET r == stopSession(Resources)
       IN  /\ dataChannelRef' = r.dataChannelRef
           /\ channelState' = r.channelState
           /\ localStream' = r.localStream
           /\ trackState' = r.trackState
           /\ peerConnection' = r.peerConnection
           /\ pcState' = r.pcState
           /\ audioElement' = r.audioElement
           /\ audioState' = r.audioState
           /\ isSessionActive' = r.isSessionActive
           /\ toolsRegistered' = r.toolsRegistered
           /\ microphoneActive' = r.microphoneActive
           /\ isListening' = r.isListening
           /\ audioBlocked' = r.audioBlocked
    /\ starts' = [i \in SessionIds |->
                    IF starts[i].step \in SuspendedSteps
                    THEN [starts[i] EXCEPT !.stopped = TRUE]
                    ELSE starts[i]]
    /\ processedCalls' = listenerEffect(NoChannel)
    /\ UNCHANGED <<calls, dispatchKinds, sent, sentChannels, events, executingTool,
                   indicatorTimers, sessionOps, canvasUpdates>>
    /\ UNCHANGED <<startTimers, alerts>>
    /\ externalSessionActive' = updateSessionState(FALSE)
    /\ UNCHANGED <<canvasVars, serverVars>>

(***************************************************************************)
(* startSession, one action per await.                                     *)
(***************************************************************************)
\* an invocation is between its call and the opening of its data channel
Negotiating ==
    \E j \in SessionIds : \/ starts[j].step \in SuspendedSteps
                          \/ /\ starts[j].step = "done"
                             /\ channelState[j] = "connecting"

\* the catch block of startSession: alert, and nothing else
Fail(i, message) ==
    /\ starts' = [starts EXCEPT ![i].step = "failed", ![i].error = message]
    /\ alerts' = Append(alerts, alertText(message))

\* startSession is invoked (the external control effect runs it whenever the
\* parent asks for a session and the store says there is none)
StartSession(i) ==
    /\ ~isSessionActive
    /\ starts[i].step = "idle"
    /\ \A j \in SessionIds : j < i => starts[j].step # "idle"
    /\ starts' = [starts EXCEPT ![i] =
                    [NotStarted EXCEPT !.step = "tools",
                                       !.concurrent = (isSessionActive \/ Negotiating)]]
    /\ UNCHANGED <<resourceVars, flagVars, bridgeVars, startTimers, alerts>>
    /\ UNCHANGED externalSessionActive
    /\ UNCHANGED <<canvasVars, serverVars>>

\* the tool catalogue answers: a body with a tool list, a body without one
\* (an error status carries { error }), or no JSON body at all
ToolsReturn(i, outcome) ==
    /\ starts[i].step = "tools"
    /\ IF outcome = "throws"
       THEN Fail(i, ToolsError)
       ELSE /\ starts' = [starts EXCEPT ![i].step = "token",
                                         ![i].tools = outcome]
            /\ UNCHANGED alerts
    /\ UNCHANGED <<resourceVars, flagVars, bridgeVars, startTimers>>
    /\ UNCHANGED externalSessionActive
    /\ UNCHANGED <<canvasVars, serverVars>>

\* the token answers; then the peer connection and the audio element are
\* created and getUserMedia is called
TokenReturn(i, outcome) ==
    /\ starts[i].step = "token"
    /\ IF outcome = "throws"
       THEN /\ Fail(i, TokenError)
            /\ UNCHANGED <<pcState, audioElement, audioState>>
       ELSE /\ starts' = [starts EXCEPT ![i].step = "microphone",
                                         ![i].key = outcome]
            /\ pcState' = [pcState EXCEPT ![i] = "open"]
            /\ audioElement' = i
            /\ audioState' = [audioState EXCEPT ![i] = "inDom"]
            /\ UNCHANGED alerts
    /\ UNCHANGED <<dataChannelRef, channelState, localStream, trackState,
                   peerConnection>>
    /\ UNCHANGED <<flagVars, bridgeVars, startTimers>>
    /\ UNCHANGED externalSessionActive
    /\ UNCHANGED <<canvasVars, serverVars>>

\* faulty variant: a refused microphone is logged and the sequence goes on
MicrophoneReturnGoesOn(i, granted) ==
    /\ starts[i].step = "microphone"
    /\ IF granted
       THEN /\ localStream' = i
            /\ trackState' = [trackState EXCEPT ![i] = "live"]
            /\ microphoneActive' = TRUE
            /\ channelState' = [channelState EXCEPT ![i] = "connecting"]
            /\ dataChannelRef' = i
            /\ starts' = [starts EXCEPT ![i].step = "ice", ![i].offered = TRUE]
            /\ UNCHANGED alerts
       ELSE /\ channelState' = [channelState EXCEPT ![i] = "connecting"]
            /\ dataChannelRef' = i
            /\ starts' = [starts EXCEPT ![i].step = "ice", ![i].offered = TRUE,
                                         ![i].error = MicrophoneDenied]
            /\ alerts' = Append(alerts, alertText(MicrophoneDenied))
            /\ UNCHANGED <<localStream, trackState, microphoneActive>>
    /\ UNCHANGED <<peerConnection, pcState, audioElement, audioState>>
    /\ UNCHANGED <<isSessionActive, toolsRegistered, isListening, audioBlocked>>
    /\ processedCalls' = listenerEffect(dataChannelRef')
    /\ UNCHANGED <<calls, dispatchKinds, sent, sentChannels, events, executingTool,
                   indicatorTimers, sessionOps, canvasUpdates>>
    /\ UNCHANGED startTimers
    /\ UNCHANGED externalSessionActive
    /\ UNCHANGED <<canvasVars, serverVars>>

\* getUserMedia answers; when granted the track is added, the data channel
\* is created and stored in the ref, and createOffer is called
MicrophoneReturn(i, granted) ==
    /\ starts[i].step = "microphone"
    /\ IF granted
       THEN /\ localStream' = i
            /\ trackState' = [trackState EXCEPT ![i] = "live"]
            /\ microphoneActive' = TRUE
            /\ channelState' = [channelState EXCEPT ![i] = "connecting"]
            /\ dataChannelRef' = i
            /\ starts' = [starts EXCEPT ![i].step = "ice", ![i].offered = TRUE]
            /\ UNCHANGED alerts
       ELSE /\ Fail(i, MicrophoneDenied)
            /\ UNCHANGED <<localStream, trackState, microphoneActive,
                           channelState, dataChannelRef>>
    /\ UNCHANGED <<peerConnection, pcState, audioElement, audioState>>
    /\ UNCHANGED <<isSessionActive, toolsRegistered, isListening, audioBlocked>>
    /\ processedCalls' = listenerEffect(dataChannelRef')
    /\ UNCHANGED <<calls, dispatchKinds, sent, sentChannels, events, executingTool,
                   indicatorTimers, sessionOps, canvasUpdates>>
    /\ UNCHANGED startTimers
    /\ UNCHANGED externalSessionActive
    /\ UNCHANGED <<canvasVars, serverVars>>

\* finish(reason) of the ICE-gathering wait, with what follows resolve():
\* the local description is read and the SDP request is sent
finish(s) ==
    IF s.resolved
    THEN s
    ELSE [s EXCEPT !.resolved = TRUE, !.resolves = @ + 1, !.step = "sdp",
                   !.sdpRequested = TRUE]

\* createOffer and setLocalDescription have answered and the executor of the
\* wait runs: the timeout is set; when gathering is already complete it is
\* cleared again and finish("immediate") runs, otherwise checkState is attached
OfferReturn(i) ==
    /\ starts[i].step = "ice"
    /\ starts' = [starts EXCEPT ![i] =
                    IF @.iceGatheringState = "complete"
                    THEN finish([@ EXCEPT !.iceTimer = FALSE])
                    ELSE [@ EXCEPT !.step = "gathering", !.iceTimer = TRUE,
                                   !.iceListener = TRUE]]
    /\ UNCHANGED <<resourceVars, flagVars, bridgeVars, startTimers, alerts>>
    /\ UNCHANGED externalSessionActive
    /\ UNCHANGED <<canvasVars, serverVars>>

\* faulty variant: checkState leaves the timeout pending
IceGatheringStateChangeKeepsTimer(i) ==
    /\ starts[i].step \in {"ice", "gathering", "sdp", "answer", "done"}
    /\ starts[i].iceGatheringState # "complete"
    /\ LET next == IF starts[i].iceGatheringState = "new" THEN "gathering"
                   ELSE "complete"
           s == [starts[i] EXCEPT !.iceGatheringState = next]
       IN  starts' = [starts EXCEPT ![i] =
                         IF s.iceListener /\ next = "complete"
                         THEN finish([s EXCEPT !.iceListener = FALSE])
                         ELSE s]
    /\ UNCHANGED <<resourceVars, flagVars, bridgeVars, startTimers, alerts>>
    /\ UNCHANGED externalSessionActive
    /\ UNCHANGED <<canvasVars, serverVars>>

\* icegatheringstatechange: gathering starts with setLocalDescription and
\* goes new -> gathering -> complete; checkState, when attached, acts on
\* "complete": it clears the timeout, removes itself and calls finish("event")
IceGatheringStateChange(i) ==
    /\ starts[i].step \in {"ice", "gathering", "sdp", "answer", "done"}
    /\ starts[i].iceGatheringState # "complete"
    /\ LET next == IF starts[i].iceGatheringState = "new" THEN "gathering"
                   ELSE "complete"
           s == [starts[i] EXCEPT !.iceGatheringState = next]
       IN  starts' = [starts EXCEPT ![i] =
                         IF s.iceListener /\ next = "complete"
                         THEN finish([s EXCEPT !.iceTimer = FALSE,
                                               !.iceListener = FALSE])
                         ELSE s]
    /\ UNCHANGED <<resourceVars, flagVars, bridgeVars, startTimers, alerts>>
    /\ UNCHANGED externalSessionActive
    /\ UNCHANGED <<canvasVars, serverVars>>

\* the 2000 ms timeout of the wait fires: checkState is removed and
\* finish("timeout") runs
IceTimeout(i) ==
    /\ starts[i].iceTimer
    /\ starts' = [starts EXCEPT ![i] =
                    finish([@ EXCEPT !.iceTimer = FALSE, !.iceListener = FALSE])]
    /\ UNCHANGED <<resourceVars, flagVars, bridgeVars, startTimers, alerts>>
    /\ UNCHANGED externalSessionActive
    /\ UNCHANGED <<canvasVars, serverVars>>

\* the SDP request answers; without a key the answer is not OK
SdpReturn(i, ok) ==
    /\ starts[i].step = "sdp"
    /\ ok => starts[i].key = "key"
    /\ IF ok
       THEN /\ starts' = [starts EXCEPT ![i].step = "answer"]
            /\ UNCHANGED alerts
       ELSE Fail(i, SdpError)
    /\ UNCHANGED <<resourceVars, flagVars, bridgeVars, startTimers>>
    /\ UNCHANGED externalSessionActive
    /\ UNCHANGED <<canvasVars, serverVars>>

\* setRemoteDescription answers (it rejects on a closed connection); then
\* peerConnection.current = pc
AnswerReturn(i, ok) ==
    /\ starts[i].step = "answer"
    /\ ok => pcState[i] = "open"
    /\ IF ok
       THEN /\ peerConnection' = i
            /\ starts' = [starts EXCEPT ![i].step = "done"]
            /\ UNCHANGED alerts
       ELSE /\ Fail(i, NegotiationError)
            /\ UNCHANGED peerConnection
    /\ UNCHANGED <<dataChannelRef, channelState, localStream, trackState,
                   pcState, audioElement, audioState>>
    /\ UNCHANGED <<flagVars, bridgeVars, startTimers>>
    /\ UNCHANGED externalSessionActive
    /\ UNCHANGED <<canvasVars, serverVars>>

\* faulty variant: the start trigger goes out before the configuration
ChannelOpenTriggersFirst(i) ==
    /\ channelState[i] = "connecting"
    /\ pcState[i] = "open"
    /\ starts[i].step = "done"
    /\ channelState' = [channelState EXCEPT ![i] = "open"]
    /\ isSessionActive' = TRUE
    /\ events' = addEvent(<<>>, SessionUpdate(starts[i].tools))
    /\ sent' = sent \o <<UserMessage, ResponseCreate, SessionUpdate(starts[i].tools)>>
    /\ toolsRegistered' = TRUE
    /\ startTimers' = startTimers
    /\ UNCHANGED <<dataChannelRef, localStream, trackState, peerConnection,
                   pcState, audioElement, audioState>>
    /\ UNCHANGED <<microphoneActive, isListening, audioBlocked>>
    /\ sentChannels' = SentChannelsAfter(sent', i)
    /\ UNCHANGED <<processedCalls, calls, dispatchKinds, executingTool,
                   indicatorTimers, sessionOps, canvasUpdates>>
    /\ UNCHANGED <<starts, alerts>>
    /\ externalSessionActive' = updateSessionState(TRUE)
    /\ UNCHANGED <<canvasVars, serverVars>>

\* the "open" handler of the data channel of invocation i
ChannelOpen(i) ==
    /\ channelState[i] = "connecting"
    /\ pcState[i] = "open"
    /\ starts[i].step = "done"
    /\ channelState' = [channelState EXCEPT ![i] = "open"]
    /\ isSessionActive' = TRUE
    /\ events' = addEvent(<<>>, SessionUpdate(starts[i].tools))
    /\ sent' = Append(sent, SessionUpdate(starts[i].tools))
    /\ toolsRegistered' = TRUE
    /\ startTimers' = startTimers \cup {i}
    /\ UNCHANGED <<dataChannelRef, localStream, trackState, peerConnection,
                   pcState, audioElement, audioState>>
    /\ UNCHANGED <<microphoneActive, isListening, audioBlocked>>
    /\ sentChannels' = SentChannelsAfter(sent', i)
    /\ UNCHANGED <<processedCalls, calls, dispatchKinds, executingTool,
                   indicatorTimers, sessionOps, canvasUpdates>>
    /\ UNCHANGED <<starts, alerts>>
    /\ externalSessionActive' = updateSessionState(TRUE)
    /\ UNCHANGED <<canvasVars, serverVars>>

\* the 500 ms timer of the open handler: dc.send of the start message and of
\* response.create on the channel itself (send throws on a closed channel)
ForceStart(i) ==
    /\ i \in startTimers
    /\ startTimers' = startTimers \ {i}
    /\ sent' = IF channelState[i] = "open"
               THEN sent \o <<UserMessage, ResponseCreate>>
               ELSE sent
    /\ sentChannels' = SentChannelsAfter(sent', i)
    /\ UNCHANGED <<processedCalls, calls, dispatchKinds, events, executingTool,
                   indicatorTimers, sessionOps, canvasUpdates>>
    /\ UNCHANGED <<resourceVars, flagVars, starts, alerts>>
    /\ UNCHANGED externalSessionActive
    /\ UNCHANGED <<canvasVars, serverVars>>

(***************************************************************************)
(* Playback of the remote audio.                                           *)
(***************************************************************************)
\* pc.ontrack of invocation i (the answer carries one audio track): the
\* stream goes to audioElement.current and play() is called
OnTrack(i) ==
    /\ starts[i].step \in {"answer", "done"}
    /\ pcState[i] = "open"
    /\ ~starts[i].remoteTrack
    /\ starts' = IF audioElement # NullRef
                 THEN [starts EXCEPT ![i].remoteTrack = TRUE,
                                     ![i].autoPlays = @ + 1,
                                     ![audioElement].srcObject = TRUE,
                                     ![audioElement].plays = @ \cup {"ontrack"}]
                 ELSE [starts EXCEPT ![i].remoteTrack = TRUE]
    /\ UNCHANGED <<resourceVars, flagVars, bridgeVars, startTimers, alerts>>
    /\ UNCHANGED externalSessionActive
    /\ UNCHANGED <<canvasVars, serverVars>>

\* enableAudio: play() on audioElement.current when it has a stream
enableAudio ==
    /\ audioElement # NullRef
    /\ starts[audioElement].srcObject
    /\ starts' = [starts EXCEPT ![audioElement].plays = @ \cup {"enableAudio"}]
    /\ UNCHANGED <<resourceVars, flagVars, bridgeVars, startTimers, alerts>>
    /\ UNCHANGED externalSessionActive
    /\ UNCHANGED <<canvasVars, serverVars>>

\* a play() promise of element e settles and the handler awaiting it goes
\* on: both set audioBlocked to false on success, ontrack sets it on failure
PlaySettles(e, handler, ok) ==
    /\ handler \in starts[e].plays
    /\ starts' = [starts EXCEPT ![e].plays = @ \ {handler}]
    /\ audioBlocked' = IF ok THEN FALSE
                       ELSE IF handler = "ontrack" THEN TRUE ELSE audioBlocked
    /\ UNCHANGED <<isSessionActive, toolsRegistered, microphoneActive, isListening>>
    /\ UNCHANGED <<resourceVars, bridgeVars, startTimers, alerts>>
    /\ UNCHANGED externalSessionActive
    /\ UNCHANGED <<canvasVars, serverVars>>

NextSession ==
    \/ \E event \in ServerEvents : MessageHandler(event)
    \/ \E k \in 1 .. Len(calls) : \E outcome \in GatewayOutcomes : GatewayReturn(k, outcome)
    \/ IndicatorTimeout
    \/ SendTextMessage
    \/ StopSession

Init == CanvasInit /\ SessionInit /\ ServerInit

SpecCanvas == Init /\ [][NextCanvas]_vars

SpecSession == Init /\ [][NextSession]_vars

\* the hook as mounted: no session, all refs null
IdleInit ==
    /\ dataChannelRef = NoChannel
    /\ channelState = [i \in SessionIds |-> "none"]
    /\ localStream = NullRef
    /\ trackState = [i \in SessionIds |-> "none"]
    /\ peerConnection = NullRef
    /\ pcState = [i \in SessionIds |-> "none"]
    /\ audioElement = NullRef
    /\ audioState = [i \in SessionIds |-> "none"]
    /\ isSessionActive = FALSE
    /\ toolsRegistered = FALSE
    /\ microphoneActive = FALSE
    /\ isListening = FALSE
    /\ audioBlocked = FALSE
    /\ processedCalls = {}
    /\ calls = <<>>
    /\ dispatchKinds = <<>>
    /\ sent = <<>>
    /\ sentChannels = <<>>
    /\ events = <<>>
    /\ executingTool = NoTool
    /\ indicatorTimers = 0
    /\ externalSessionActive = FALSE
    /\ sessionOps = 0
    /\ canvasUpdates = <<>>
    /\ starts = [i \in SessionIds |-> NotStarted]
    /\ startTimers = {}
    /\ alerts = <<>>

NextLifecycle ==
    \/ \E i \in SessionIds : StartSession(i)
    \/ \E i \in SessionIds : \E outcome \in {"list", "missing", "throws"} : ToolsReturn(i, outcome)
    \/ \E i \in SessionIds : \E outcome \in {"key", "missing", "throws"} : TokenReturn(i, outcome)
    \/ \E i \in SessionIds : \E granted \in BOOLEAN : MicrophoneReturn(i, granted)
    \/ \E i \in SessionIds : OfferReturn(i)
    \/ \E i \in SessionIds : IceGatheringStateChange(i)
    \/ \E i \in SessionIds : IceTimeout(i)
    \/ \E i \in SessionIds : \E ok \in BOOLEAN : SdpReturn(i, ok)
    \/ \E i \in SessionIds : \E ok \in BOOLEAN : AnswerReturn(i, ok)
    \/ \E i \in SessionIds : ChannelOpen(i)
    \/ \E i \in SessionIds : ForceStart(i)
    \/ StopSession

InitLifecycle == CanvasInit /\ IdleInit /\ ServerInit

(***************************************************************************)
(* The page drives the session: handleStartLearning and handleStopLearning *)
(* set the page state, and the external session control effect of the hook *)
(* (dependency: externalSessionActive) runs when that state has changed.   *)
(***************************************************************************)
\* setIsSessionActive(true); the effect calls startSession() when the store
\* says there is no session
handleStartLearning(i) ==
    /\ ~externalSessionActive
    /\ externalSessionActive' = TRUE
    /\ starts[i].step = "idle"
    /\ \A j \in SessionIds : j < i => starts[j].step # "idle"
    /\ IF ~isSessionActive
       THEN starts' = [starts EXCEPT ![i] =
                         [NotStarted EXCEPT !.step = "tools",
                                            !.concurrent = Negotiating]]
       ELSE UNCHANGED starts
    /\ UNCHANGED <<resourceVars, flagVars, bridgeVars, startTimers, alerts>>
    /\ UNCHANGED <<canvasVars, serverVars>>

\* setIsSessionActive(false); the effect calls stopSession() when the store
\* says there is a session, and does nothing otherwise
handleStopLearning ==
    /\ externalSessionActive
    /\ IF isSessionActive
       THEN StopSession
       ELSE /\ externalSessionActive' = FALSE
            /\ UNCHANGED <<resourceVars, flagVars, bridgeVars, startVars>>
            /\ UNCHANGED <<canvasVars, serverVars>>

NextPage ==
    \/ \E i \in SessionIds : handleStartLearning(i)
    \/ handleStopLearning
    \/ \E i \in SessionIds : \E outcome \in {"list", "missing", "throws"} : ToolsReturn(i, outcome)
    \/ \E i \in SessionIds : \E outcome \in {"key", "missing", "throws"} : TokenReturn(i, outcome)
    \/ \E i \in SessionIds : \E granted \in BOOLEAN : MicrophoneReturn(i, granted)
    \/ \E i \in SessionIds : OfferReturn(i)
    \/ \E i \in SessionIds : IceGatheringStateChange(i)
    \/ \E i \in SessionIds : IceTimeout(i)
    \/ \E i \in SessionIds : \E ok \in BOOLEAN : SdpReturn(i, ok)
    \/ \E i \in SessionIds : \E ok \in BOOLEAN : AnswerReturn(i, ok)
    \/ \E i \in SessionIds : ChannelOpen(i)
    \/ \E i \in SessionIds : ForceStart(i)

SpecPage == InitLifecycle /\ [][NextPage]_vars

SpecLifecycle == InitLifecycle /\ [][NextLifecycle]_vars

\* faulty variant: the forwarding effect of the hook is live
CanvasUpdateReceivedForwards(update) ==
    /\ \A k \in 1 .. Len(canvasUpdates) :
          canvasUpdates[k].type # update.type \/ canvasUpdates[k].seq # update.seq
    /\ canvasUpdates' = <<[type |-> update.type, seq |-> update.seq,
                           duringSession |-> isSessionActive]>>
                            \o canvasUpdates
    /\ LET log == IF isSessionActive
                  THEN sendClientEvent(sendClientEvent(Log, UserMessage), ResponseCreate)
                  ELSE Log
       IN  /\ sent' = log.sent
           /\ events' = log.events
    /\ sentChannels' = SentChannelsAfter(sent', dataChannelRef)
    /\ UNCHANGED <<processedCalls, calls, dispatchKinds, executingTool, indicatorTimers,
                   sessionOps>>
    /\ UNCHANGED <<resourceVars, flagVars, startVars>>
    /\ UNCHANGED externalSessionActive
    /\ UNCHANGED <<canvasVars, serverVars>>

\* the page receives a canvas update, a message of type canvas_update posted
\* by the iframe or of type canvas_user_update relayed over the WebSocket
\* (seq: the diff of the canvas it carries; a message arrives once), puts it
\* at the head of canvasUpdates and passes the list down; the effect of the
\* hook that forwarded the newest update is commented out, so the hook does
\* nothing with it
CanvasUpdateReceived(update) ==
    /\ \A k \in 1 .. Len(canvasUpdates) :
          canvasUpdates[k].type # update.type \/ canvasUpdates[k].seq # update.seq
    /\ canvasUpdates' = <<[type |-> update.type, seq |-> update.seq,
                           duringSession |-> isSessionActive]>>
                            \o canvasUpdates
    /\ UNCHANGED <<processedCalls, calls, dispatchKinds, sent, sentChannels, events,
                   executingTool, indicatorTimers, sessionOps>>
    /\ UNCHANGED <<resourceVars, flagVars, startVars>>
    /\ UNCHANGED externalSessionActive
    /\ UNCHANGED <<canvasVars, serverVars>>

\* startSession going through, every request answered and the ICE-gathering
\* wait ended by its timeout
StartSucceeds(i) ==
    \/ StartSession(i)
    \/ ToolsReturn(i, "list")
    \/ TokenReturn(i, "key")
    \/ MicrophoneReturn(i, TRUE)
    \/ OfferReturn(i)
    \/ IceTimeout(i)
    \/ SdpReturn(i, TRUE)
    \/ AnswerReturn(i, TRUE)
    \/ ChannelOpen(i)
    \/ ForceStart(i)

\* sessions and the playback of their audio
NextPlayback ==
    \/ \E i \in SessionIds : StartSucceeds(i)
    \/ \E i \in SessionIds : OnTrack(i)
    \/ enableAudio
    \/ \E e \in SessionIds : \E handler \in {"ontrack", "enableAudio"} :
          \E ok \in BOOLEAN : PlaySettles(e, handler, ok)
    \/ StopSession

SpecPlayback == InitLifecycle /\ [][NextPlayback]_vars

(***************************************************************************)
(* The canvas and the page around it: the debounce callback sends a diff   *)
(* with sendCanvasUpdateViaPostMessage and sendCanvasUpdateViaWebSocket    *)
(* (the canvas runs in the iframe of the page, its socket is open and the  *)
(* server relays canvas_user_update to the page), and the page receives    *)
(* each of the two messages.                                               *)
(***************************************************************************)
\* the messages that can arrive next: each path keeps the order of sending
Deliveries ==
    {[type |-> t, seq |-> n] :
        t \in {"canvas_update", "canvas_user_update"}, n \in 1 .. Len(emitted)}
    \cap
    {[type |-> t,
      seq |-> Cardinality({k \in 1 .. Len(canvasUpdates) : canvasUpdates[k].type = t}) + 1] :
        t \in {"canvas_update", "canvas_user_update"}}

\* the user edits, the debounce runs, the messages arrive
NextDelivery ==
    \/ UserAdd
    \/ \E i \in 1 .. Len(scene) : UserModify(i)
    \/ \E i \in 1 .. Len(scene) : UserRemove(i)
    \/ DebounceExpire
    \/ Tick
    \/ \E update \in Deliveries : CanvasUpdateReceived(update)

SpecDelivery == InitLifecycle /\ [][NextDelivery]_vars

(***************************************************************************)
(* The canvas receiving mermaid_convert messages while the user draws.     *)
(***************************************************************************)
NextMermaid ==
    \/ MermaidConvertStart
    \/ \E outcome \in {"elements", "error"} : MermaidConvertFinish(outcome)
    \/ UserAdd
    \/ OnChange
    \/ WindowExpire
    \/ DebounceExpire
    \/ Tick

SpecMermaid == Init /\ [][NextMermaid]_vars

(***************************************************************************)
(* describeCanvasChanges on its own: the debounce timer is due with every  *)
(* pair of element lists (the captured elements, the baseline) that scenes *)
(* with distinct ids can form.                                             *)
(***************************************************************************)
DescribeElements ==
    {NewElement(id, v) : id \in 1 .. MaxDescribeIds, v \in 1 .. MaxVersions}

\* lists of elements with pairwise distinct ids, in any order
ElementLists ==
    UNION {{list \in [1 .. n -> DescribeElements] :
               \A i, j \in 1 .. n : i # j => list[i].id # list[j].id} :
           n \in 0 .. MaxDescribeIds}

DescribeInit ==
    /\ debounceElements \in ElementLists
    /\ lastElementsRef \in ElementLists
    /\ scene = debounceElements
    /\ lastNotified = debounceElements
    /\ nextId = MaxDescribeIds + 1
    /\ pendingNotify = FALSE
    /\ isApplyingRemoteUpdateRef = FALSE
    /\ remoteUpdateTimeoutRef = NoTimer
    /\ changeTimeoutRef = 0
    /\ windowTimeouts = 0
    /\ changeTimeouts = 1
    /\ emitted = <<>>
    /\ canvasOps = 0
    /\ userTouched = {}
    /\ netAdded = {} /\ netRemoved = {} /\ netModified = {}
    /\ windowSinceSchedule = FALSE
    /\ clearCanvasPending = FALSE
    /\ clearNotify = "none"
    /\ lastOp = "notify_debounced"
    /\ mermaidPending = FALSE
    /\ ConnectedInit
    /\ IdleInit
    /\ ServerInit

SpecDescribe == DescribeInit /\ [][DebounceExpire]_vars

\* the events of a run with restarts: the trigger of one call, which the
\* server may repeat in any session, and an event of a type the handler does
\* not know
RestartEvents ==
    {ev \in ServerEvents :
        \/ /\ ev.type = ArgumentsDone
           /\ ev.item # NoItem
           /\ ev.item.type = "function_call"
           /\ ev.item.call_id \in CallIds
           /\ \A c \in CallIds : ev.item.call_id <= c
           /\ ev.item.name = "create_element"
           /\ ev.item.arguments = "{}"
        \/ ev.type = Unrecognized}

\* the updates the iframe posts to the page in a run with restarts
PostedUpdates == {[type |-> "canvas_update", seq |-> n] : n \in 1 .. MaxCanvasUpdates}

\* sessions started, used and stopped one after (or over) the other
NextRestart ==
    \/ \E i \in SessionIds : StartSucceeds(i)
    \/ StopSession
    \/ \E event \in RestartEvents : MessageHandler(event)
    \/ \E k \in 1 .. Len(calls) : GatewayReturn(k, "content")
    \/ \E update \in PostedUpdates : CanvasUpdateReceived(update)

SpecRestart == InitLifecycle /\ [][NextRestart]_vars

(***************************************************************************)
(* Properties of the canvas app.                                           *)
(***************************************************************************)
ExpiryOps == {"debounce_skipped", "debounce_emitted", "debounce_silent"}

\* the ids the diff of the expiring debounce reports
ReportedIds ==
    IdsOf(Added(debounceElements, lastElementsRef))
        \cup IdsOf(Removed(debounceElements, lastElementsRef))
        \cup IdsOf(Modified(debounceElements, lastElementsRef))

\* C3: no emitted diff reports (as added, removed or modified) an element
\* that only remote-origin mutations have changed: every element a diff
\* reports is one the user added, modified or removed.
C3_NoRemoteChangeReported ==
    [][emitted' # emitted => ReportedIds \subseteq userTouched]_vars

\* C4: an onChange that arrives while the remote-update window is open emits
\* no diff, starts (and restarts) no debounce, and sets the baseline to the
\* notified elements.
C4_WindowNotificationSuppressed ==
    [][lastOp' = "notify_in_window" =>
          /\ emitted' = emitted
          /\ changeTimeoutRef' = changeTimeoutRef
          /\ debounceElements' = debounceElements
          /\ lastElementsRef' = scene']_vars

\* a notification was taken in the window after a remote mutation changed the
\* scene: the baseline holds the notified elements, nothing emitted or scheduled
C4_Witness ==
    /\ lastOp = "notify_in_window"
    /\ isApplyingRemoteUpdateRef
    /\ Len(scene) > 0
    /\ lastElementsRef = scene
    /\ changeTimeoutRef = NoTimer
    /\ emitted = <<>>

\* C5: the debounce callback reads the window flag when it runs: if the
\* window is open at expiry no diff is emitted for that cycle (the window was
\* closed when the debounce was scheduled, or it would not have been).
C5_WindowRecheckedAtExpiry ==
    [][(lastOp' \in ExpiryOps /\ isApplyingRemoteUpdateRef) => emitted' = emitted]_vars

\* a debounce expired inside a window that opened after it was scheduled
C5_Witness ==
    /\ lastOp = "debounce_skipped"
    /\ isApplyingRemoteUpdateRef
    /\ windowSinceSchedule
    /\ emitted = <<>>

\* C6: when a debounce expires inside a window opened by a later remote
\* mutation, the baseline afterwards is the state of the most recent
\* notification (the post-remote-mutation state).
C6_BaselineAfterDiscard ==
    lastOp = "debounce_skipped" => lastElementsRef = lastNotified

\* C7: a debounce cycle of user edits with no window open (none since the
\* debounce was last restarted, none at expiry) emits exactly one diff when
\* the user changed something since the baseline was set; the counts of an
\* emitted diff equal the user's net changes since the baseline; the baseline
\* is then the notified state.
C7_OneCorrectDiffPerCycle ==
    [][(lastOp' \in ExpiryOps /\ ~isApplyingRemoteUpdateRef /\ ~windowSinceSchedule) =>
          /\ (netAdded \cup netRemoved \cup netModified # {}
                => Len(emitted') = Len(emitted) + 1)
          /\ (emitted' # emitted =>
                LET d == emitted'[Len(emitted')].description
                IN  /\ d.added = Cardinality(netAdded)
                    /\ d.removed = Cardinality(netRemoved)
                    /\ d.modified = Cardinality(netModified))
          /\ lastElementsRef' = debounceElements]_vars

(***************************************************************************)
(* Properties of the session hook.                                         *)
(***************************************************************************)
InvocationsOf(c) == {k \in 1 .. Len(calls) : calls[k].call_id = c}

\* positions in `sent` of the function_call_output items of a call id
OutputPositions(c) ==
    {i \in 1 .. Len(sent) : /\ sent[i].type = "conversation.item.create"
                            /\ sent[i].item.type = "function_call_output"
                            /\ sent[i].item.call_id = c}

\* trigger messages of a call id received so far, by type
TriggerTypes(c) ==
    {events[i].type : i \in {j \in 1 .. Len(events) :
                                /\ IsTrigger(events[j])
                                /\ events[j].item.call_id = c}}

\* the error output of a call id was sent and response.create right after it
AnsweredWithError(c, message) ==
    \E i \in OutputPositions(c) :
        /\ sent[i].item.output = errorOutput(message)
        /\ i < Len(sent)
        /\ sent[i + 1] = ResponseCreate

Handled(k) == calls[k].status # "rejected"

Completed(k) == calls[k].status \in {"succeeded", "failed"}

\* C1: on one data channel handleFunctionCall is invoked at most once per
\* call_id, whatever triggers of either kind arrive and in whatever order.
C1_AtMostOneInvocationPerCallId ==
    \A c \in CallIds : Cardinality(InvocationsOf(c)) <= 1

\* both trigger kinds arrived for one call id, and it was dispatched once
C1_Witness ==
    \E c \in CallIds : /\ TriggerTypes(c) = {ArgumentsDone, OutputItemDone}
                       /\ Cardinality(InvocationsOf(c)) = 1

\* C2: once no gateway request is outstanding, every call_id that a received
\* trigger carried has exactly one function_call_output in what was sent.
C2_ExactlyOneOutputPerCallId ==
    (\A k \in 1 .. Len(calls) : calls[k].status # "fetching")
        => \A c \in CallIds :
              TriggerTypes(c) # {} => Cardinality(OutputPositions(c)) = 1

\* C8 (as stated): a handled invocation whose arguments string is not valid
\* JSON never reaches the gateway; its error output and then response.create
\* are sent.
C8_InvalidJsonAnswered ==
    \A k \in 1 .. Len(calls) :
        (/\ Handled(k)
         /\ calls[k].arguments # Undefined
         /\ calls[k].arguments \notin ValidJsonTexts)
        => /\ calls[k].status = "failed"
           /\ calls[k].error = InvalidJson
           /\ AnsweredWithError(calls[k].call_id, InvalidJson)

\* C8 (amended): a handled invocation whose arguments string is not empty and
\* not valid JSON never reaches the gateway; its error output and then
\* response.create are sent.  (An empty string is executed with {}.)
C8_MalformedArgumentsAnswered ==
    \A k \in 1 .. Len(calls) :
        (/\ Handled(k)
         /\ calls[k].arguments \notin {Undefined, ""}
         /\ calls[k].arguments \notin ValidJsonTexts)
        => /\ calls[k].status = "failed"
           /\ calls[k].error = InvalidJson
           /\ AnsweredWithError(calls[k].call_id, InvalidJson)

\* a call with a broken arguments string was handled and answered
C8_Witness ==
    \E k \in 1 .. Len(calls) :
        /\ calls[k].name \in ToolNames
        /\ calls[k].arguments = "{x"
        /\ calls[k].status = "failed"
        /\ Cardinality(OutputPositions(calls[k].call_id)) = 1

GatewayErrors == {NetworkError, HttpError}

ContinuationsPaired ==
    /\ \A i \in 1 .. Len(sent) :
          (sent[i].type = "conversation.item.create"
              /\ sent[i].item.type = "function_call_output")
          => (i < Len(sent) /\ sent[i + 1] = ResponseCreate)
    /\ \A i \in 1 .. Len(sent) :
          sent[i] = ResponseCreate
          => /\ i > 1
             /\ sent[i - 1].type = "conversation.item.create"

NoReleases ==
    [channelsClosed |-> {}, tracksStopped |-> {}, connectionsClosed |-> {},
     elementsRemoved |-> {}]

\* C11: from every state, a second stopSession leaves the state the first one
\* produced (session inactive, all refs null, flags reset) and makes no
\* release call: no track stopped, no channel or connection closed, no audio
\* element removed.
C11_StopTwiceSameAsOnce ==
    LET once == stopSession(Resources)
    IN  /\ stopSession(once) = once
        /\ Releases(once) = NoReleases
        /\ ~once.isSessionActive
        /\ once.dataChannelRef = NoChannel
        /\ once.localStream = NullRef
        /\ once.peerConnection = NullRef
        /\ once.audioElement = NullRef
        /\ ~once.toolsRegistered /\ ~once.microphoneActive
        /\ ~once.isListening /\ ~once.audioBlocked

\* stopSession has run on a session that held every resource
C11_Witness ==
    /\ ~isSessionActive
    /\ Resources = stopSession(Resources)
    /\ \E i \in SessionIds : /\ channelState[i] = "closed"
                             /\ trackState[i] = "ended"
                             /\ pcState[i] = "closed"
                             /\ audioState[i] = "removed"

\* C12: a call dispatched from the fallback kind (response.output_item.done)
\* is one whose canonical message (response.function_call_arguments.done) is
\* not seen in the session.
C12_CanonicalPreferred ==
    \A k \in 1 .. Len(calls) :
        dispatchKinds[k] = OutputItemDone
            => ArgumentsDone \notin TriggerTypes(calls[k].call_id)

\* C13: every scene update of the remote path (a server message, or the
\* initial snapshot of loadExistingElements) leaves the window open and its
\* timer at 500 ms.
C13_RemoteUpdatesInsideWindow ==
    [][lastOp' \in {"ws_update", "load_existing"}
          => /\ isApplyingRemoteUpdateRef'
             /\ remoteUpdateTimeoutRef' = WindowTicks]_vars

\* C14: the debounce that the onChange of clearCanvas (re)started never
\* emits a diff.
C14_ClearNeverReported ==
    [][clearNotify = "debounced" => emitted' = emitted]_vars

\* C15: the data channel of a start whose tool catalogue request returned no
\* tool list never opens (the session does not become active for it and no
\* session.update is sent).
C15_NoToolsNoSession ==
    \A i \in SessionIds : starts[i].tools = "missing" => channelState[i] # "open"

\* C16: a start that failed holds nothing: no live track, no audio element in
\* the document, no open connection or channel, and no ref points at one of
\* its objects.
C16_FailedStartReleasesEverything ==
    \A i \in SessionIds :
        starts[i].step = "failed"
        => /\ trackState[i] # "live"
           /\ audioState[i] # "inDom"
           /\ pcState[i] # "open"
           /\ channelState[i] \notin {"connecting", "open"}
           /\ dataChannelRef # i /\ localStream # i
           /\ peerConnection # i /\ audioElement # i

\* C17: once a start during which stopSession ran has finished, its track is
\* not live, its connection and channel are neither open nor referenced, and
\* the session is not active through it.
C17_StopDuringStartLeavesNothing ==
    \A i \in SessionIds :
        (starts[i].stopped /\ starts[i].step \in {"done", "failed"})
        => /\ trackState[i] # "live"
           /\ pcState[i] # "open"
           /\ channelState[i] \notin {"connecting", "open"}
           /\ dataChannelRef # i /\ peerConnection # i

\* C18: a start invoked while another one is negotiating or the session is
\* active creates nothing and overwrites no ref.
C18_ConcurrentStartRejected ==
    \A i \in SessionIds :
        starts[i].concurrent
        => /\ trackState[i] = "none"
           /\ pcState[i] = "none"
           /\ channelState[i] = "none"
           /\ audioState[i] = "none"
           /\ dataChannelRef # i /\ localStream # i
           /\ peerConnection # i /\ audioElement # i

MicrophoneAlerts ==
    {n \in 1 .. Len(alerts) : alerts[n] = alertText(MicrophoneDenied)}

\* C19: a start whose getUserMedia failed stops there: it has failed, it has
\* no data channel, created no offer and sent no SDP request, its channel
\* never activates the session, and each such failure is reported by an alert
\* with the microphone message (which is not a negotiation message).
C19_MicrophoneFailureStopsStart ==
    /\ \A i \in SessionIds :
          starts[i].error = MicrophoneDenied
          => /\ starts[i].step = "failed"
             /\ channelState[i] = "none"
             /\ ~starts[i].offered
             /\ ~starts[i].sdpRequested
    /\ Cardinality(MicrophoneAlerts) =
          Cardinality({i \in SessionIds : starts[i].error = MicrophoneDenied})
    /\ alertText(MicrophoneDenied) \notin
          {alertText(SdpError), alertText(NegotiationError)}

\* the microphone was refused after the connection and the audio element
\* had been created
C19_Witness ==
    \E i \in SessionIds : /\ starts[i].error = MicrophoneDenied
                          /\ starts[i].step = "failed"
                          /\ pcState[i] = "open"
                          /\ Len(alerts) > 0
                          /\ alerts[Len(alerts)] = alertText(MicrophoneDenied)

\* C20: after stopSession, an indicator timer that a call of the stopped
\* session set before the stop changes no state when it fires.
C20_NoTimerAfterStop ==
    [][(/\ ~isSessionActive
        /\ indicatorTimers' < indicatorTimers
        /\ \A k \in 1 .. Len(calls) :
              calls[k].status = "succeeded" => calls[k].sentOn # NoChannel)
          => executingTool' = executingTool]_vars

(***************************************************************************)
(* Properties of the event log.                                            *)
(***************************************************************************)
\* C21: every step of the message handler adds the event to the log first:
\* its entry lies directly on top of the old log, under whatever the handling
\* of the event logs (so it is there when the handling fails), whatever the
\* type of the event; and a step that makes a dispatch is the step of an
\* event of one of the two trigger types.
C21_LoggedBeforeDispatch ==
    [][\A event \in ServerEvents :
          MessageHandler(event)
          => /\ Len(events') > Len(events)
             /\ events'[Len(events') - Len(events)] = Logged(event)
             /\ SubSeq(events', Len(events') - Len(events) + 1, Len(events')) = events
             /\ Len(calls') > Len(calls)
                   => event.type \in {ArgumentsDone, OutputItemDone}]_vars

\* an event of a type the handler does not know was logged, and so was a
\* trigger whose handling failed at once (its error output lies on top)
C21_Witness ==
    /\ \E n \in 1 .. Len(events) : events[n].type = Unrecognized
    /\ \E k \in 1 .. Len(calls) :
          /\ calls[k].error = InvalidJson
          /\ \E n \in 2 .. Len(events) :
                /\ events[n].type \in {ArgumentsDone, OutputItemDone}
                /\ events[n].item.call_id = calls[k].call_id
                /\ \E m \in 1 .. (n - 1) :
                      events[m] = FunctionCallOutput(calls[k].call_id,
                                                     errorOutput(InvalidJson))

(***************************************************************************)
(* Properties of the ICE-gathering wait.                                   *)
(***************************************************************************)
\* C24: the wait of every start resolves at most once, and exactly once
\* before the SDP request is sent; while the start waits its 2000 ms timeout
\* is pending (so the wait ends even if gathering never completes); and once
\* the wait has resolved neither the timeout nor the listener is left.
C24_IceWaitResolvesOnce ==
    \A i \in SessionIds :
        /\ starts[i].resolves <= 1
        /\ starts[i].sdpRequested => starts[i].resolves = 1
        /\ starts[i].step = "gathering"
              => starts[i].iceTimer /\ ~starts[i].resolved
        /\ starts[i].resolved => ~starts[i].iceTimer /\ ~starts[i].iceListener

\* one start went on after the timeout while gathering was not complete,
\* another after the gathering-complete event
C24_Witness ==
    /\ \E i \in SessionIds : /\ starts[i].sdpRequested
                              /\ starts[i].iceGatheringState # "complete"
    /\ \E i \in SessionIds : /\ starts[i].sdpRequested
                              /\ starts[i].iceGatheringState = "complete"

(***************************************************************************)
(* Properties of the audio playback.                                       *)
(***************************************************************************)
\* C23: ontrack calls play() at most once for its track; when that play() is
\* rejected audioBlocked becomes true; an element that ontrack has played is
\* played again by enableAudio only; and audioBlocked goes back to false only
\* when a play() of enableAudio succeeds or stopSession runs.
C23_NoAutomaticReplay ==
    [][/\ \A i \in SessionIds : starts'[i].autoPlays <= 1
       /\ \A e \in SessionIds : PlaySettles(e, "ontrack", FALSE) => audioBlocked'
       /\ (\E e \in SessionIds : /\ starts[e].srcObject
                                  /\ ~(starts'[e].plays \subseteq starts[e].plays))
             => enableAudio
       /\ (audioBlocked /\ ~audioBlocked')
             => (StopSession \/ \E e \in SessionIds :
                                   PlaySettles(e, "enableAudio", TRUE))]_vars

\* C22: from the opening of the channel to the stop the event log only
\* grows at its newest end: every step of an active session keeps the entries
\* it had, in their order, and a processed message adds one entry for itself
C22_EventLogAppendOnly ==
    [][isSessionActive /\ isSessionActive'
          => /\ Len(events') >= Len(events)
             /\ SubSeq(events', Len(events') - Len(events) + 1, Len(events')) = events
             /\ \A event \in ServerEvents :
                   MessageHandler(event)
                   => events'[Len(events') - Len(events)] = Logged(event)]_vars

C29_ConfigurationFirst ==
    /\ [](\A c \in SessionIds : \A n \in 1 .. Len(sent) :
             sentChannels[n] = c
             => IF \A m \in 1 .. n - 1 : sentChannels[m] # c
                THEN sent[n] = SessionUpdate(starts[c].tools)
                ELSE sent[n].type # "session.update")
    /\ [][/\ ~isSessionActive /\ isSessionActive'
              => \E i \in SessionIds : /\ channelState[i] = "connecting"
                                       /\ channelState'[i] = "open"
          /\ \A i \in SessionIds :
                ForceStart(i) /\ sent' # sent
                => /\ sent' = sent \o <<UserMessage, ResponseCreate>>
                   /\ \E n \in 1 .. Len(sent) :
                         /\ sentChannels[n] = i
                         /\ sent[n].type = "session.update"]_vars

\* a second session: on its channel the configuration, then the start
\* message and response.create, all after the traffic of the first channel
C29_Witness ==
    /\ isSessionActive
    /\ \E c \in SessionIds : \E n \in 2 .. Len(sent) - 2 :
          /\ sentChannels[n] = c
          /\ sentChannels[n - 1] # c
          /\ sent[n] = SessionUpdate(starts[c].tools)
          /\ \E m \in n + 1 .. Len(sent) - 1 :
                /\ sentChannels[m] = c
                /\ sent[m] = UserMessage
                /\ sent[m + 1] = ResponseCreate

\* C30: the set of processed call ids belongs to the listener of one data
\* channel: while the channel of the hook stays the same the set loses no id,
\* and when the channel changes (a start attaches a new one, stopSession
\* drops it) the next listener begins with an empty set, so that a trigger
\* for an id of the previous session is dispatched again
C30_ProcessedCallsPerSession ==
    [][/\ dataChannelRef' = dataChannelRef => processedCalls \subseteq processedCalls'
       /\ dataChannelRef' # dataChannelRef => processedCalls' = {}
       /\ \A event \in ServerEvents :
             /\ MessageHandler(event)
             /\ IsTrigger(event)
             /\ \A k \in InvocationsOf(event.item.call_id) :
                   calls[k].sentOn \notin {NoChannel, dataChannelRef}
             => Len(calls') = Len(calls) + 1]_vars

\* one call id dispatched in two sessions: both invocations succeeded and sent
\* their output, each on the channel of its own session
C30_Witness ==
    \E k1, k2 \in 1 .. Len(calls) :
        /\ k1 < k2
        /\ calls[k1].call_id = calls[k2].call_id
        /\ calls[k1].status = "succeeded"
        /\ calls[k2].status = "succeeded"
        /\ calls[k1].sentOn # NoChannel
        /\ calls[k2].sentOn # NoChannel
        /\ calls[k1].sentOn # calls[k2].sentOn

\* C26: a remote mutation message cancels the pending window timer and sets a
\* new one of 500 ms, so that at most one window timer is pending; the window
\* is open after the message and closes only when the timer set last has run
\* its 500 ms, and an open window that no clearCanvas call holds always has
\* its timer pending
C26_WindowTimerRestarted ==
    /\ [](windowTimeouts <= 1)
    /\ [](isApplyingRemoteUpdateRef /\ ~clearCanvasPending
             => remoteUpdateTimeoutRef >= 0 /\ windowTimeouts = 1)
    /\ [][/\ \A data \in WsMessages :
                handleWebSocketMessage(data) /\ shouldMarkAsRemote(data)
                => /\ isApplyingRemoteUpdateRef'
                   /\ remoteUpdateTimeoutRef' = WindowTicks
                   /\ windowTimeouts' = 1
          /\ isApplyingRemoteUpdateRef /\ ~isApplyingRemoteUpdateRef'
                => /\ remoteUpdateTimeoutRef = 0
                   /\ windowTimeouts' = 0]_vars

\* two remote messages within the same 500 ms (four elements from two
\* messages, no onChange handled yet): one timer pending, with its full time
C26_Witness ==
    /\ canvasOps = 2
    /\ Len(scene) = 4
    /\ lastNotified = <<>>
    /\ isApplyingRemoteUpdateRef
    /\ remoteUpdateTimeoutRef = WindowTicks
    /\ windowTimeouts = 1

\* C27: an onChange handled while the window is closed cancels the pending
\* debounce timer and sets a new one of 2000 ms that holds the notified
\* elements, so that at most one debounce timer is pending; nothing else
\* changes what the timer holds, and its expiry uses what it holds
C27_DebounceRestarted ==
    /\ [](changeTimeouts <= 1)
    /\ []((changeTimeoutRef >= 0) <=> (changeTimeouts = 1))
    /\ [][/\ lastOp' = "notify_debounced"
                => /\ changeTimeoutRef' = DebounceTicks
                   /\ changeTimeouts' = 1
                   /\ debounceElements' = lastNotified'
          /\ debounceElements' # debounceElements => lastOp' = "notify_debounced"
          /\ Len(emitted') > Len(emitted)
                => /\ changeTimeoutRef = 0
                   /\ changeTimeouts' = 0
                   /\ emitted'[Len(emitted')].elementCount = Len(debounceElements)
                   /\ lastElementsRef' = debounceElements]_vars

\* a burst of three edits within one debounce period, then its one expiry:
\* one diff, made from the state of the third notification
C27_Witness ==
    /\ lastOp = "debounce_emitted"
    /\ canvasOps = 3
    /\ Len(emitted) = 1
    /\ emitted[1].elementCount = 3
    /\ lastElementsRef = lastNotified
    /\ Len(lastNotified) = 3
    /\ changeTimeouts = 0

\* C28: describeCanvasChanges classifies by element id: added are the ids
\* in current and not in previous, removed the ids in previous and not in
\* current, modified the ids in both whose versions differ; the three are
\* pairwise disjoint, the counts reported are their sizes, and the result is
\* null (nothing is emitted) exactly when all three are empty
C28_DescribeById ==
    [][changeTimeoutRef = 0 /\ changeTimeoutRef' = NoTimer /\ ~isApplyingRemoteUpdateRef
          => LET current == debounceElements
                 previous == lastElementsRef
                 addedIds == IdsOf(current) \ IdsOf(previous)
                 removedIds == IdsOf(previous) \ IdsOf(current)
                 modifiedIds ==
                     {id \in IdsOf(current) \cap IdsOf(previous) :
                         \E i \in 1 .. Len(current) : \E j \in 1 .. Len(previous) :
                             /\ current[i].id = id
                             /\ previous[j].id = id
                             /\ current[i].version # previous[j].version}
                 added == Added(current, previous)
                 removed == Removed(current, previous)
                 modified == Modified(current, previous)
             IN  /\ IdsOf(added) = addedIds
                 /\ IdsOf(removed) = removedIds
                 /\ IdsOf(modified) = modifiedIds
                 /\ IdsOf(added) \cap IdsOf(removed) = {}
                 /\ IdsOf(added) \cap IdsOf(modified) = {}
                 /\ IdsOf(removed) \cap IdsOf(modified) = {}
                 /\ IF addedIds = {} /\ removedIds = {} /\ modifiedIds = {}
                    THEN /\ describeCanvasChanges(current, previous) = Null
                         /\ emitted' = emitted
                    ELSE /\ describeCanvasChanges(current, previous) # Null
                         /\ Len(emitted') = Len(emitted) + 1
                         /\ emitted'[Len(emitted')].description.added
                               = Cardinality(addedIds)
                         /\ emitted'[Len(emitted')].description.removed
                               = Cardinality(removedIds)
                         /\ emitted'[Len(emitted')].description.modified
                               = Cardinality(modifiedIds)]_vars

\* a diff with an added, a removed and a modified element at once
C28_Witness ==
    /\ lastOp = "debounce_emitted"
    /\ Len(emitted) = 1
    /\ emitted[1].description.added > 0
    /\ emitted[1].description.removed > 0
    /\ emitted[1].description.modified > 0

\* C31: a diff of the canvas is recorded once in canvasUpdates, whichever
\* of its two messages arrive
C31_DiffRecordedOnce ==
    \A n \in 1 .. Len(emitted) :
        Cardinality({k \in 1 .. Len(canvasUpdates) : canvasUpdates[k].seq = n}) <= 1

\* C32: the function_call_output and response.create of a tool call go out
\* on the data channel of the session that dispatched the call, never on the
\* channel of a later session
C32_OutputOnOwnChannel ==
    \A k \in 1 .. Len(calls) :
        calls[k].status = "succeeded"
        => calls[k].sentOn \in {NoChannel, calls[k].receivedOn}

\* C33: a trigger that carries a tool name and a call_id for which every
\* earlier trigger was rejected for its missing name is executed: the handler
\* starts an invocation for it that passes the missing-field guard
C33_RejectedTriggerKeepsCallId ==
    [][\A event \in ServerEvents :
          /\ MessageHandler(event)
          /\ IsTrigger(event)
          /\ event.item.name # NoName
          /\ \A k \in InvocationsOf(event.item.call_id) : calls[k].status = "rejected"
          => /\ Len(calls') = Len(calls) + 1
             /\ calls'[Len(calls')].call_id = event.item.call_id
             /\ calls'[Len(calls')].status # "rejected"]_vars

\* C34: the window is open when the converted elements of a mermaid_convert
\* message are applied with updateScene, and the onChange of that update is
\* handled inside the window and so is not reported
C34_MermaidInsertInWindow ==
    [][/\ lastOp' = "mermaid_applied" /\ mermaidPending => isApplyingRemoteUpdateRef
       /\ lastOp = "mermaid_applied" /\ pendingNotify /\ ~pendingNotify'
             => lastOp' = "notify_in_window"]_vars

\* C35: once a start has failed and no other start is under way, the flag of
\* the page and the flag of the store agree
C35_FlagsAgreeAfterFailure ==
    (/\ \E i \in SessionIds : starts[i].step = "failed"
     /\ ~Negotiating)
    => externalSessionActive = isSessionActive

\* C36: the session becomes active only while the page asks for one: a stop
\* request made during a start is not followed by the channel-open handler
\* setting the flags to true
C36_StopDuringStartHonoured ==
    [][~isSessionActive /\ isSessionActive' => externalSessionActive]_vars

(***************************************************************************)
(* The MCP client alone: the canvas and the session stay as mounted.       *)
(***************************************************************************)
SpecServer == InitLifecycle /\ [][NextServer]_vars

\* C37: a rejected client promise is never kept in clientPromise: after a
\* failed connection attempt the next getExcalidrawClient() connects anew.
C37_RejectedPromiseNotKept ==
    clientPromise # NoClient => PromiseState(clientPromise) # "rejected"

\* C38: at most one transport is live, and while one is connected
\* clientPromise and activeTransport refer to it.
C38_OneLiveClient ==
    /\ Cardinality(LiveTransports) <= 1
    /\ \A k \in LiveTransports :
           transports[k].state = "connected" =>
               clientPromise = k /\ activeTransport = k

(***************************************************************************)
(* The connection of the canvas app from its mount on.                     *)
(***************************************************************************)
InitSockets == DrawInit /\ MountInit /\ IdleInit /\ ServerInit

SpecSockets == InitSockets /\ [][NextSockets]_vars

\* C39: the canvas app holds at most one WebSocket that is connecting or
\* open.
C39_OneLiveSocket == Cardinality(LiveSockets) <= 1

====
